---- MODULE Spec2Model ----
(***************************************************************************)
(* A model of the alignment-discovery pipeline of src/ALNplot.c: the       *)
(* adaptive-seed merge of two k-mer tables (merge_thread), the re-import   *)
(* and sort of the seed shards (reimport_thread, pair_sort_search), the    *)
(* chain search and the redundancy filter (align_contigs).                 *)
(*                                                                         *)
(* Each component has its own specification over its own group of          *)
(* variables; the variables of the other components keep the value they    *)
(* were given by Idle... in that specification.                            *)
(***************************************************************************)
EXTENDS Integers, Sequences, FiniteSets, TLC

VARIABLES T1, T2, FREQ, mw, units, buck, mlast, seen
VARIABLES sfile, scomp, spass, stale, rp, sbuck, sarr, sphase, scalls
VARIABLES CHAIN_BREAK, CHAIN_MIN, ALIGN_MIN, crecs, ccomp, cend, cw, calls, clast
VARIABLES oblock, perm, eflags, fpc, fj, fk, ofile, fcmp
VARIABLES uname, ufile, upc, uthr
VARIABLES cmd, mainpc, files, tarm, las, prog
VARIABLES dlens, dpart
VARIABLES ovls, rthreads, parm, segments, nSegment, rpc
VARIABLES dict, added, dcall

mergeVars == <<T1, T2, FREQ, mw, units, buck, mlast, seen>>
sortVars  == <<sfile, scomp, spass, stale, rp, sbuck, sarr, sphase, scalls>>
chainVars == <<CHAIN_BREAK, CHAIN_MIN, ALIGN_MIN, crecs, ccomp, cend, cw, calls, clast>>
filterVars == <<oblock, perm, eflags, fpc, fj, fk, ofile, fcmp>>
shardVars == <<uname, ufile, upc, uthr>>
mainVars  == <<cmd, mainpc, files, tarm, las, prog>>
splitVars == <<dlens, dpart>>
readVars == <<ovls, rthreads, parm, segments, nSegment, rpc>>
dictVars == <<dict, added, dcall>>
vars      == <<mergeVars, sortVars, chainVars, filterVars, shardVars, mainVars, splitVars, readVars, dictVars>>
\* the variables of the other stages, which stand still while one runs
notMerge  == <<sortVars, chainVars, filterVars, shardVars, mainVars, splitVars, readVars, dictVars>>
notSort   == <<mergeVars, chainVars, filterVars, shardVars, mainVars, splitVars, readVars, dictVars>>
notChain  == <<mergeVars, sortVars, filterVars, shardVars, mainVars, splitVars, readVars, dictVars>>
notFilter == <<mergeVars, sortVars, chainVars, shardVars, mainVars, splitVars, readVars, dictVars>>
notShard  == <<mergeVars, sortVars, chainVars, filterVars, mainVars, splitVars, readVars, dictVars>>
notMain   == <<mergeVars, sortVars, chainVars, filterVars, shardVars, splitVars, readVars, dictVars>>
notSplit == <<mergeVars, sortVars, chainVars, filterVars, shardVars, mainVars, readVars, dictVars>>
notRead == <<mergeVars, sortVars, chainVars, filterVars, shardVars, mainVars, splitVars, dictVars>>
notDict == <<mergeVars, sortVars, chainVars, filterVars, shardVars, mainVars, splitVars, readVars>>

(***************************************************************************)
(* Sizes of the model.                                                     *)
(***************************************************************************)
MaxT1   == 3        \* most entries of the first k-mer table
MaxT2   == 3        \* most entries of the second k-mer table
MaxFreq == 4        \* largest frequency cutoff tried (option -f)

\* Run parameters the program takes from the indices (main, 3677-3678).
KMER     == 14      \* k-mer length: 12 prefix bases and a 2-base suffix
NTHREADS == 2       \* nsqrt of the indices: the number of workers
NCONTS   == 3       \* number of a-contigs
\* The circular post buffer of merge_thread, scaled down from 0x1000.
POST_BUF_LEN == 8

Panels == {0, 1, 2} \* values of the 12-base prefix (cpre) in the tables
Bases  == {0, 1}    \* values of a 2-bit base in the suffixes
IXLEN  == Cardinality(Panels)   \* cpre of a k-mer stream at its end
NTHR   == NTHREADS * NTHREADS      \* shard files of an index (nsqrt^2)

Min(a, b) == IF a < b THEN a ELSE b
Max(a, b) == IF a > b THEN a ELSE b

RECURSIVE SumTo(_, _, _)
\* f(lo) + ... + f(hi), 0 when lo > hi
SumTo(f, lo, hi) == IF lo > hi THEN 0 ELSE f[lo] + SumTo(f, lo + 1, hi)

(***************************************************************************)
(* K-mer tables.  An entry is a k-mer (prefix panel pre, suffix bases      *)
(* suf), the count cnt of its positions and lcp, the number of bases it    *)
(* shares with the entry before it.                                        *)
(***************************************************************************)
SufLen == KMER - 12
\* The k-mers the tables are drawn from: every suffix in panel 0, the
\* suffixes that start with base 0 in panel 1, the suffix 0...0 in panel 2.
Kmers  == {k \in [pre : Panels, suf : [1..SufLen -> Bases]] :
             /\ k.pre = 1 => k.suf[1] = 0
             /\ k.pre = 2 => \A i \in 1..SufLen : k.suf[i] = 0}

RECURSIVE SufVal(_, _)
SufVal(s, n) == IF n = 0 THEN 0 ELSE 4 * SufVal(s, n - 1) + s[n]
KmerLess(a, b) == \/ a.pre < b.pre
                  \/ a.pre = b.pre /\ SufVal(a.suf, SufLen) < SufVal(b.suf, SufLen)

\* Bases two k-mers of one panel share; k-mers of different panels share
\* fewer than 12, written 11.
CommonBases(a, b) ==
  IF a.pre # b.pre THEN 11
  ELSE 12 + CHOOSE n \in 0..SufLen :
              /\ \A i \in 1..n : a.suf[i] = b.suf[i]
              /\ n < SufLen => a.suf[n + 1] # b.suf[n + 1]

RECURSIVE IncSeqs(_)
\* the strictly increasing sequences of at most n k-mers
IncSeqs(n) ==
  IF n = 0 THEN {<<>>}
  ELSE LET S == IncSeqs(n - 1)
       IN  S \cup {Append(s, k) : s \in {x \in S : Len(x) = n - 1}, k \in Kmers}

SortedSeqs(n) ==
  {s \in IncSeqs(n) : \A i \in 1..(Len(s) - 1) : KmerLess(s[i], s[i + 1])}

\* The table of the k-mers s.  An entry has one or two positions, by the
\* last base of its k-mer: 1 + base when odd = 0, 2 - base when odd = 1.
MkTable(s, odd) ==
  [i \in 1..Len(s) |->
     [pre |-> s[i].pre, suf |-> s[i].suf,
      cnt |-> IF odd = 0 THEN 1 + s[i].suf[SufLen] ELSE 2 - s[i].suf[SufLen],
      lcp |-> IF i = 1 THEN 11 ELSE CommonBases(s[i - 1], s[i])]]

\* The shard file that holds a panel: the same for both indices.
ShardOf(pre) == Min(pre, NTHR - 1)

\* neps[p] of a k-mer stream: entries in shards 0..p
KNeps(T, p) == Cardinality({i \in 1..Len(T) : ShardOf(T[i].pre) <= p})
\* neps[p] of a post list: position entries in shards 0..p
PNeps(T, p) == SumTo([i \in 1..Len(T) |-> T[i].cnt], 1, KNeps(T, p))

\* cpre of a k-mer stream at index i (0-based), IXLEN at its end
PreAt(T, i) == IF i < Len(T) THEN T[i + 1].pre ELSE IXLEN
CntAt(T, i) == T[i + 1].cnt
\* index in the post list of the first position of entry i (0-based)
PostBase(T, i) == SumTo([j \in 1..Len(T) |-> T[j].cnt], 1, i)

(***************************************************************************)
(* merge_thread.  The state of a worker is a record:                       *)
(*   t1, t2  T1->cidx and T2->cidx;  p1, p2  P1->cidx and P2->cidx         *)
(*   cpre    the panel in the cache; cbase the T2 index of cache[0]        *)
(*   ctop, rcur, rend, vlow, vhgh, vlcp[]  cache pointers, in entries      *)
(*           from cache (vlow = -1 is cache-KBYTE)                         *)
(*   plen, eorun, pdx, cdx, post[]  as in the code; post holds the index   *)
(*           in P2 of the entry copied there, -1 where nothing was copied  *)
(*   bad     a read of the cache beyond what was loaded has happened       *)
(***************************************************************************)
Spart(tid) == NTHREADS * tid - 1
\* tend as it would be with the size of the table in place of neps[]
TendWholeTable(tid) == Len(T1)
\* tend = T1->neps[spart+nsqrt]
Tend(tid) == KNeps(T1, Spart(tid) + NTHREADS)

MergeStart(tid) ==
  [t1    |-> IF tid # 0 THEN KNeps(T1, Spart(tid)) ELSE 0,
   t2    |-> IF tid # 0 THEN KNeps(T2, Spart(tid)) ELSE 0,
   p1    |-> IF tid # 0 THEN PNeps(T1, Spart(tid)) ELSE 0,
   p2    |-> IF tid # 0 THEN PNeps(T2, Spart(tid)) ELSE 0,
   tend  |-> Tend(tid),
   cpre  |-> -1, cbase |-> 0, ctop |-> 0, vhgh |-> 0,
   plen  |-> 0, rcur |-> 0, rend |-> 0, vlow |-> 0,
   vlcp  |-> [l \in 12..KMER |-> 0],
   pdx   |-> 0, cdx |-> 0, eorun |-> 0,
   post  |-> [i \in 0..(POST_BUF_LEN + FREQ - 1) |-> -1],
   nhits |-> 0, g1len |-> 0, tseed |-> 0,
   bad   |-> FALSE, done |-> FALSE]

\* l[LBYTE] with the entry at ctop read as an entry that shares all bases
CLcpNoSentinel(s, l) == IF 0 <= l /\ l < s.ctop THEN T2[s.cbase + l + 1].lcp ELSE KMER
\* l[CBYTE] and l[LBYTE] of the cache entry l; ctop[LBYTE] is the sentinel 11
CCnt(s, l) == IF 0 <= l /\ l < s.ctop THEN T2[s.cbase + l + 1].cnt ELSE 0
CLcp(s, l) == IF l = s.ctop THEN 11
              ELSE IF 0 <= l /\ l < s.ctop THEN T2[s.cbase + l + 1].lcp ELSE 0
\* the base of a k-mer entry that follows its first plen bases (cbyte, mbyte)
BaseAt(e, plen) == e.suf[plen - 11]
CBase(s, l, plen) == IF 0 <= l /\ l < s.ctop
                     THEN BaseAt(T2[s.cbase + l + 1], plen) ELSE 0

\* ADVANCE(l), but for the step l += KBYTE
Advance(s, l) ==
  LET n  == CCnt(s, l)
      ld == l >= s.vhgh
      s1 == IF ld
            THEN [s EXCEPT
                    !.post = [i \in DOMAIN s.post |->
                                IF \E k \in 1..n : (s.pdx + k) % POST_BUF_LEN = i
                                THEN s.p2 - 1 + CHOOSE k \in 1..n :
                                       /\ (s.pdx + k) % POST_BUF_LEN = i
                                       /\ \A j \in (k + 1)..n :
                                            (s.pdx + j) % POST_BUF_LEN # i
                                ELSE s.post[i]],
                    !.pdx  = (s.pdx + n) % POST_BUF_LEN,
                    !.p2   = s.p2 + n,
                    !.vhgh = l + 1]
            ELSE s
  IN  [s1 EXCEPT !.cdx = (s.cdx + n) % POST_BUF_LEN,
                 !.bad = s.bad \/ l < 0 \/ l >= s.ctop]

AdvanceRend(s) == [Advance(s, s.rend) EXCEPT !.rend = s.rend + 1]

\* first index i >= from of table T with PreAt(T, i) >= pre (resp. # pre)
RECURSIVE SkipBelow(_, _, _)
SkipBelow(T, from, pre) ==
  IF PreAt(T, from) < pre THEN SkipBelow(T, from + 1, pre) ELSE from
RECURSIVE SkipEqual(_, _, _)
SkipEqual(T, from, pre) ==
  IF PreAt(T, from) = pre THEN SkipEqual(T, from + 1, pre) ELSE from

\* "New prefix panel" (1867-1933): the result has go = FALSE when the panel
\* has no T2 entry and the T1 entries of the panel were skipped.
NewPanel(s) ==
  LET cpre  == PreAt(T1, s.t1)
      rest  == SumTo([l \in 0..s.ctop |-> CCnt(s, l)], s.vhgh, s.ctop - 1)
      j     == SkipBelow(T2, s.t2, cpre)
      j2    == SkipEqual(T2, j, cpre)
      bidx  == rest + PostBase(T2, j) - PostBase(T2, s.t2)
      s1    == [s EXCEPT !.cpre = cpre, !.p2 = s.p2 + bidx, !.t2 = j2,
                         !.cbase = j, !.ctop = j2 - j]
      i2    == SkipEqual(T1, s.t1, cpre)
  IN  IF j2 = j
      THEN [go |-> FALSE,
            s  |-> [s1 EXCEPT !.t1 = i2,
                       !.p1 = s.p1 + PostBase(T1, i2) - PostBase(T1, s.t1)]]
      ELSE [go |-> TRUE,
            s  |-> [s1 EXCEPT !.plen = 12, !.vlcp[12] = 0, !.rcur = 0,
                       !.rend = 0, !.vlow = -1, !.vhgh = 0,
                       !.pdx = POST_BUF_LEN - 1, !.cdx = 0, !.eorun = 0]]

RECURSIVE AdvanceWhileLcpAbove(_, _)
\* while (rend[LBYTE] > nlcp) ADVANCE(rend)
AdvanceWhileLcpAbove(s, nlcp) ==
  IF CLcp(s, s.rend) > nlcp /\ s.rend < s.ctop
  THEN AdvanceWhileLcpAbove(AdvanceRend(s), nlcp) ELSE s

\* SamePanel without the test of eorun where nlcp = plen
SamePanelNoRescan(s, nlcp) ==
  IF nlcp >= s.plen THEN [scan |-> FALSE, s |-> s]
  ELSE LET s1 == IF s.eorun = 0 THEN AdvanceRend(s) ELSE s
           s2 == AdvanceWhileLcpAbove(s1, nlcp)
           pl == CLcp(s2, s2.rend)
       IN  IF pl < nlcp
           THEN [scan |-> FALSE, s |-> [s2 EXCEPT !.eorun = 1, !.plen = nlcp]]
           ELSE [scan |-> TRUE,
                 s |-> [s2 EXCEPT !.plen = pl, !.eorun = 0, !.rcur = s2.rend]]

\* The T1 entry shares nlcp bases with the one before it (1953-1977); the
\* result has scan = FALSE where the code jumps to pairs.
SamePanel(s, nlcp) ==
  IF nlcp > s.plen THEN [scan |-> FALSE, s |-> s]
  ELSE IF nlcp = s.plen THEN [scan |-> s.eorun = 0, s |-> s]
  ELSE LET s1 == IF s.eorun = 0 THEN AdvanceRend(s) ELSE s
           s2 == AdvanceWhileLcpAbove(s1, nlcp)
           pl == CLcp(s2, s2.rend)
       IN  IF pl < nlcp
           THEN [scan |-> FALSE, s |-> [s2 EXCEPT !.eorun = 1, !.plen = nlcp]]
           ELSE [scan |-> TRUE,
                 s |-> [s2 EXCEPT !.plen = pl, !.eorun = 0, !.rcur = s2.rend]]

RECURSIVE ScanBase(_, _)
\* for (d = rend[h]&m; d < c; d = rend[h]&m) { ADVANCE(rend) ... } (1985-1991)
ScanBase(s, c) ==
  IF CBase(s, s.rend, s.plen) < c /\ s.rend < s.ctop
  THEN LET s1 == AdvanceRend(s)
       IN  IF CLcp(s1, s1.rend) < s.plen
           THEN [brk |-> TRUE, s |-> [s1 EXCEPT !.eorun = 1]]
           ELSE ScanBase(s1, c)
  ELSE [brk |-> FALSE, s |-> [s EXCEPT !.bad = s.bad \/ s.rend >= s.ctop]]

RECURSIVE Scan(_, _)
\* while (plen < KMER) ... ADVANCE(rend); eorun = 1 (1979-1998)
Scan(s, e) ==
  IF s.plen >= KMER
  THEN [AdvanceRend(s) EXCEPT !.eorun = 1]
  ELSE LET c == BaseAt(e, s.plen)
           r == ScanBase(s, c)
       IN  IF r.brk THEN r.s
           ELSE IF CBase(r.s, r.s.rend, r.s.plen) > c THEN r.s
           ELSE Scan([r.s EXCEPT !.plen = r.s.plen + 1,
                                 !.vlcp[r.s.plen + 1] = r.s.rend,
                                 !.rcur = r.s.rend], e)

\* The position entries of the two post lists, by their index in the list:
\* contig, strand bit and position within the contig.
P1Entry(i) == [cont |-> i % NCONTS, sign |-> (i \div NCONTS) % 2, post |-> i]
P2Entry(j) == [cont |-> 0, sign |-> j % 2, post |-> j]

\* LcsDown with the cutoff tested by > in place of >=
RECURSIVE LcsDownAboveFreq(_, _, _, _)
LcsDownAboveFreq(s, l, vcp, freq) ==
  IF l < vcp THEN [hit |-> FALSE, freq |-> freq, l |-> l]
  ELSE LET f == freq + CCnt(s, l)
       IN  IF f > FREQ THEN [hit |-> TRUE, freq |-> f, l |-> l]
           ELSE LcsDownAboveFreq(s, l - 1, vcp, f)

\* for (l = rend-KBYTE; l >= vcp; l -= KBYTE) freq += l[CBYTE] ... (2027-2037)
RECURSIVE LcsDown(_, _, _, _)
LcsDown(s, l, vcp, freq) ==
  IF l < vcp THEN [hit |-> FALSE, freq |-> freq, l |-> l]
  ELSE LET f == freq + CCnt(s, l)
       IN  IF f >= FREQ THEN [hit |-> TRUE, freq |-> f, l |-> l]
           ELSE LcsDown(s, l - 1, vcp, f)

\* while (l[LBYTE] >= plen) { freq += l[CBYTE]; ... ADVANCE(l) } (2053-2065)
RECURSIVE Probe(_, _, _)
Probe(s, l, freq) ==
  IF CLcp(s, l) >= s.plen /\ l < s.ctop
  THEN LET f == freq + CCnt(s, l)
       IN  IF f >= FREQ THEN [hit |-> TRUE, s |-> s, freq |-> f, l |-> l]
           ELSE Probe(Advance(s, l), l + 1, f)
  ELSE [hit |-> FALSE, s |-> s, freq |-> freq, l |-> l]

\* "empty:" without the jump in P1
EmptyNoJump(s, e) ==
  [kind |-> "empty", recs |-> <<>>, freq |-> 0, b |-> 0, top |-> s.rend,
   s |-> [s EXCEPT !.t1 = s.t1 + 1]]
\* "empty:" (2159-2161)
Empty(s, e) ==
  [kind |-> "empty", recs |-> <<>>, freq |-> 0, b |-> 0, top |-> s.rend,
   s |-> [s EXCEPT !.p1 = s.p1 + e.cnt, !.t1 = s.t1 + 1]]

\* The records of one T1 entry (2073-2156): the freq posts from post[b] on,
\* for each of the entry's positions in P1.
Emit(s, e, lcs, freq, top) ==
  LET b    == IF s.cdx >= lcs THEN s.cdx - lcs
              ELSE (s.cdx + POST_BUF_LEN) - lcs
      m    == (b + freq) % POST_BUF_LEN
      post == IF b + freq > POST_BUF_LEN
              THEN [i \in DOMAIN s.post |->
                      IF i >= POST_BUF_LEN /\ i - POST_BUF_LEN < m
                      THEN s.post[i - POST_BUF_LEN] ELSE s.post[i]]
              ELSE s.post
      recs == [x \in 1..(e.cnt * freq) |->
                 [lcp |-> s.plen,
                  a   |-> s.p1 + ((x - 1) \div freq),
                  b   |-> post[b + ((x - 1) % freq)]]]
  IN  [kind |-> "emit", recs |-> recs, freq |-> freq, b |-> b, top |-> top,
       s |-> [s EXCEPT !.post = post,
                       !.nhits = s.nhits + e.cnt * freq,
                       !.g1len = s.g1len + e.cnt,
                       !.tseed = s.tseed + e.cnt * freq * s.plen,
                       !.p1 = s.p1 + e.cnt, !.t1 = s.t1 + 1]]

\* "pairs:" (2002-2071)
Pairs(s, e) ==
  LET vcp == s.vlcp[s.plen]
  IN  IF vcp <= s.vlow THEN Empty(s, e)
      ELSE LET d == LcsDown(s, s.rend - 1, vcp, 0)
           IN  IF d.hit THEN Empty([s EXCEPT !.vlow = d.l], e)
               ELSE IF s.eorun = 0
               THEN LET f0 == d.freq + CCnt(s, s.rend)
                        sb == [s EXCEPT !.bad = s.bad \/ s.rend >= s.ctop]
                    IN  IF f0 >= FREQ THEN Empty(sb, e)
                        ELSE LET pr == Probe(Advance(sb, s.rend), s.rend + 1, f0)
                                 su == [pr.s EXCEPT !.cdx = s.cdx]
                             IN  IF pr.hit THEN Empty(su, e)
                                 ELSE Emit(su, e, d.freq, pr.freq, pr.l)
               ELSE Emit(s, e, d.freq, d.freq, s.rend)

\* One iteration of the loop over T1 (1861-2162).
MergeIteration(s) ==
  LET e == T1[s.t1 + 1]
  IN  IF PreAt(T1, s.t1) # s.cpre
      THEN LET np == NewPanel(s)
           IN  IF ~np.go
               THEN [kind |-> "skip", recs |-> <<>>, freq |-> 0, b |-> 0,
                     top |-> 0, s |-> np.s]
               ELSE Pairs(Scan(np.s, e), e)
      ELSE LET sp == SamePanel(s, e.lcp)
           IN  Pairs(IF sp.scan THEN Scan(sp.s, e) ELSE sp.s, e)

(***************************************************************************)
(* The split of the a-contigs into parts (main, 3797-3825).  lens[x] is    *)
(* the length of the contig with sort index x (DB1->reads[Perm1[x]].rlen). *)
(***************************************************************************)
RECURSIVE SplitLoop(_, _, _, _)
SplitLoop(lens, npost, x, st) ==
  IF x >= Len(lens) THEN st
  ELSE LET new == st.cum >= st.t /\ x >= st.r
           p   == IF new THEN st.p + 1 ELSE st.p
       IN  SplitLoop(lens, npost, x + 1,
             [p     |-> p,
              r     |-> IF new THEN st.r + NTHREADS ELSE st.r,
              t     |-> IF new THEN (npost * (p + 1)) \div NTHREADS ELSE st.t,
              cum   |-> st.cum + lens[x + 1],
              sel   |-> Append(st.sel, p),
              split |-> IF new THEN Append(st.split, x) ELSE st.split])

\* sel[x+1] is Select[x], split[p+1] is IDBsplit[p], nparts is NPARTS
Partition(lens) ==
  LET npost == SumTo(lens, 1, Len(lens))
      st    == SplitLoop(lens, npost, 1,
                 [p |-> 0, r |-> NTHREADS, t |-> npost \div NTHREADS,
                  cum |-> lens[1], sel |-> <<0>>, split |-> <<0>>])
  IN  [sel |-> st.sel, split |-> Append(st.split, Len(lens)), nparts |-> st.p + 1]

\* The a-contigs of the merge model all have the same length.
ALens   == [x \in 1..NCONTS |-> 1]
APartition == Partition(ALens)
NPARTS  == APartition.nparts
Select(acont) == APartition.sel[acont + 1]

(***************************************************************************)
(* The merge as a state machine: the NTHREADS workers of adaptamer_merge   *)
(* run merge_thread side by side, one loop iteration at a step.            *)
(*   units[t][f][j]  the records written to the shard file of worker t,    *)
(*                   family f ("N" same strand, "C" opposite), part j      *)
(*   buck[t][f][c]   the counter buck[c] of worker t and family f          *)
(*   mlast[t]        what the last iteration of worker t did               *)
(*   seen[i]         how many iterations have consumed T1 entry i          *)
(***************************************************************************)
Workers  == 0..(NTHREADS - 1)
Families == {"N", "C"}

\* every record put in the first part
DestOfFirstPart(rec) == 0

\* the unit a record goes to (2089-2098)
FamilyOf(rec) == IF P1Entry(rec.a).sign = P2Entry(rec.b).sign THEN "N" ELSE "C"
DestOf(rec)   == Select(P1Entry(rec.a).cont)

RECURSIVE WriteAll(_, _, _)
\* the files after the records recs[k..] are appended, in order
WriteAll(u, recs, k) ==
  IF k > Len(recs) THEN u
  ELSE LET r == recs[k]
       IN  WriteAll([u EXCEPT ![FamilyOf(r)][DestOf(r)] = Append(@, r)], recs, k + 1)

RECURSIVE CountAll(_, _, _)
\* ou->buck[acont] += 1 for each record (2106)
CountAll(bk, recs, k) ==
  IF k > Len(recs) THEN bk
  ELSE LET r == recs[k]
       IN  CountAll([bk EXCEPT ![FamilyOf(r)][P1Entry(r.a).cont] = @ + 1], recs, k + 1)

NoIteration == [kind |-> "none", from |-> 0, to |-> 0, plen |-> 0, freq |-> 0,
                b |-> 0, top |-> 0, recs |-> <<>>]

MergeInit ==
  /\ \E s1 \in SortedSeqs(MaxT1), s2 \in SortedSeqs(MaxT2) :
        /\ Len(s1) >= 1
        /\ T1 = MkTable(s1, 1)
        /\ T2 = MkTable(s2, 0)
  /\ FREQ \in 1..MaxFreq
  /\ mw = [t \in Workers |-> MergeStart(t)]
  /\ units = [t \in Workers |-> [f \in Families |-> [j \in 0..(NPARTS - 1) |-> <<>>]]]
  /\ buck = [t \in Workers |-> [f \in Families |-> [c \in 0..(NCONTS - 1) |-> 0]]]
  /\ mlast = [t \in Workers |-> NoIteration]
  /\ seen = [i \in 0..(Len(T1) - 1) |-> 0]

\* while (T1->cidx < tend) { ... }: one iteration of worker tid
MergeStep(tid) ==
  /\ ~mw[tid].done
  /\ mw[tid].t1 < mw[tid].tend
  /\ \E r \in {MergeIteration(mw[tid])} :
         /\ mw' = [mw EXCEPT ![tid] = r.s]
         /\ units' = [units EXCEPT ![tid] = WriteAll(@, r.recs, 1)]
         /\ buck' = [buck EXCEPT ![tid] = CountAll(@, r.recs, 1)]
         /\ mlast' = [mlast EXCEPT ![tid] =
                        [kind |-> r.kind, from |-> mw[tid].t1, to |-> r.s.t1,
                         plen |-> r.s.plen, freq |-> r.freq, b |-> r.b,
                         top |-> r.top, recs |-> r.recs]]
         /\ seen' = [i \in DOMAIN seen |->
                       IF mw[tid].t1 <= i /\ i < r.s.t1 THEN seen[i] + 1 ELSE seen[i]]
  /\ UNCHANGED <<T1, T2, FREQ, notMerge>>

\* the loop ends: the buffers are flushed, the files closed (2164-2179)
MergeExit(tid) ==
  /\ ~mw[tid].done
  /\ mw[tid].t1 >= mw[tid].tend
  /\ mw' = [mw EXCEPT ![tid].done = TRUE]
  /\ mlast' = [mlast EXCEPT ![tid] = NoIteration]
  /\ UNCHANGED <<T1, T2, FREQ, units, buck, seen, notMerge>>

MergeNext == \E tid \in Workers : MergeStep(tid) \/ MergeExit(tid)


(***************************************************************************)
(* Re-import and sort of the seeds of one part (pair_sort_search,          *)
(* reimport_thread).  The NTHREADS shard files of family scomp and part    *)
(* spass are read back side by side, each seed becomes a sort record at    *)
(* its slot of the sort array, and the array is sorted panel by panel.     *)
(*   sfile[p]   the seed records of the shard file read by thread p        *)
(*   stale      what the bytes left in an I/O buffer decode to             *)
(*   rp[p]      reimport_thread p: pc, the buffer buf (bytes <<k, i>>:     *)
(*              byte i of record k of the file, <<0, 0>> a stale byte),    *)
(*              the offsets b, btop, bend from bufr, the bytes fpos read   *)
(*              from the file, nrec the records written so far             *)
(*   sbuck[p]   buck[] of thread p;  sarr  the sort array, slot by slot    *)
(***************************************************************************)
BUCK_WIDTH == 64
BUCK_SHIFT == 6
MaxFile    == 3     \* most records of the shard file of thread 0
MaxStray   == 2     \* most records followed once the buffer is overrun
IOLen      == 5     \* iolen, bytes of the I/O buffer, scaled down
IUnit      == 2     \* iunit = IBYTE+JBYTE+1, bytes of a seed record, scaled
BLens      == <<100, 100>>   \* jreads[Perm2[j]].rlen of the b-contigs
\* bytes of a position in the first and in the second index, and of pdiag
IPOST      == 1
JPOST      == 1
DBYTE      == IF IPOST > JPOST THEN IPOST ELSE JPOST

IDBsplit(p) == APartition.split[p + 1]
PassConts   == IDBsplit(spass)..(IDBsplit(spass + 1) - 1)

Seed(l, ip, ic, jp, jc, f) ==
  [lcp |-> l, ipost |-> ip, icont |-> ic, jpost |-> jp, jcont |-> jc, flip |-> f]
\* the seed records the shard files are drawn from
SeedPool == {Seed(14, 10, 0, 40, 0, 0), Seed(14, 20, 0, 52, 0, 0),
             Seed(12, 5, 0, 86, 0, 1),  Seed(14, 10, 0, 40, 1, 0),
             Seed(13, 10, 1, 40, 0, 0), Seed(14, 30, 1, 20, 1, 0),
             Seed(14, 7, 2, 30, 0, 0),
             Seed(14, 255, 2, 0, 0, 0), Seed(14, 0, 2, 100, 0, 0)}
StalePool == {Seed(14, 10, 0, 40, 0, 0), Seed(14, 7, 2, 30, 0, 0)}

RECURSIVE DistinctSeqs(_, _)
\* the sequences of at most n distinct elements of S
DistinctSeqs(S, n) ==
  IF n = 0 THEN {<<>>}
  ELSE LET R == DistinctSeqs(S, n - 1)
       IN  R \cup {Append(z[1], z[2]) :
                     z \in {y \in R \X S :
                              /\ Len(y[1]) = n - 1
                              /\ \A k \in 1..Len(y[1]) : y[1][k] # y[2]}}

\* drem of the same strand without the length of the b-contig
DremNoOffset(sd) == IF scomp = 1 THEN sd.ipost + sd.jpost
                    ELSE sd.ipost - sd.jpost
\* drem, pdiag and the remainder byte of a seed (2354-2362)
Drem(sd) == IF scomp = 1 THEN sd.ipost + sd.jpost
            ELSE (sd.ipost - sd.jpost) + BLens[sd.jcont + 1]
\* pdiag with the shift count taken as the divisor
PdiagByShiftCount(drem) == drem \div BUCK_SHIFT
Pdiag(drem) == drem \div (2 ^ BUCK_SHIFT)
\* the sort record with the a-post of a flipped seed shifted on both strands
SortRecShiftOnBothStrands(sd) ==
  LET drem == Drem(sd)
  IN  [lcp   |-> sd.lcp,
       drem  |-> (drem - Pdiag(drem) * (2 ^ BUCK_SHIFT)) % 256,
       ipost |-> (IF sd.flip = 1
                  THEN sd.ipost + (KMER - sd.lcp) ELSE sd.ipost) % (256 ^ IPOST),
       pdiag |-> Pdiag(drem) % (256 ^ DBYTE),
       jcont |-> sd.jcont,
       of    |-> sd]
\* the sort record of a seed: lcp, remainder, ipost, pdiag, jcont (2352-2368),
\* each in the bytes it is stored in
SortRec(sd) ==
  LET drem == Drem(sd)
  IN  [lcp   |-> sd.lcp,
       drem  |-> (drem - Pdiag(drem) * (2 ^ BUCK_SHIFT)) % 256,
       ipost |-> (IF scomp = 0 /\ sd.flip = 1
                  THEN sd.ipost + (KMER - sd.lcp) ELSE sd.ipost) % (256 ^ IPOST),
       pdiag |-> Pdiag(drem) % (256 ^ DBYTE),
       jcont |-> sd.jcont,
       of    |-> sd]
\* a slot of the sort array nothing was written to
NoRec == [lcp |-> 0, drem |-> 0, ipost |-> 0, pdiag |-> 0, jcont |-> 0,
          of |-> Seed(0, 0, 0, 0, 0, 0)]

\* buck[] of the threads made running totals within each part (3356-3370)
RECURSIVE BuckCum(_, _, _, _)
BuckCum(bk, k, cum, nelmax) ==
  IF k = NCONTS * NTHREADS THEN [buck |-> bk, nelmax |-> nelmax]
  ELSE LET j    == k \div NTHREADS
               i    == k % NTHREADS
               c    == cum + bk[i][j]
               last == /\ i = NTHREADS - 1
                       /\ (j + 1 = NCONTS \/ Select(j) # Select(j + 1))
       IN  BuckCum([bk EXCEPT ![i][j] = c], k + 1,
                   IF last THEN 0 ELSE c,
                   IF last /\ c > nelmax THEN c ELSE nelmax)

\* the totals shifted into the first slot of each thread (3372-3379)
RECURSIVE BuckShift(_, _)
BuckShift(bk, j) ==
  IF j < 0 THEN bk
  ELSE LET b0 == IF j = 0 \/ Select(j) # Select(j - 1) THEN 0
                 ELSE bk[NTHREADS - 1][j - 1]
       IN  BuckShift([q \in Workers |->
                        [bk[q] EXCEPT ![j] = IF q >= 1 THEN bk[q - 1][j] ELSE b0]],
                     j - 1)

StaleByte == <<0, 0>>
FileBytes(p) == Len(sfile[p]) * IUnit
\* read(in,bufr+at,n): the buffer, the file offset and the bytes read
ReadInto(r, p, at, n) ==
  LET cnt == Max(0, Min(n, FileBytes(p) - r.fpos))
  IN  [buf  |-> [x \in DOMAIN r.buf |->
                   IF at <= x /\ x < at + cnt
                   THEN <<(r.fpos + x - at) \div IUnit + 1, (r.fpos + x - at) % IUnit>>
                   ELSE r.buf[x]],
       fpos |-> r.fpos + cnt,
       cnt  |-> cnt]

\* the seed the iunit bytes at b decode to (2340-2350)
Decode(r, p) ==
  LET ks == {k \in 1..Len(sfile[p]) :
               /\ r.b >= 0 /\ r.b + IUnit <= IOLen
               /\ \A i \in 0..(IUnit - 1) : r.buf[r.b + i] = <<k, i>>}
  IN  IF ks = {} THEN stale ELSE sfile[p][CHOOSE k \in ks : TRUE]

\* btop for a buffer holding bend bytes (2325-2328, 2378-2381)
Btop(bend) == IF bend < IOLen THEN bend ELSE bend - IUnit

RStart == [pc |-> "start", buf |-> [x \in 0..(IOLen - 1) |-> StaleByte],
           b |-> 0, btop |-> 0, bend |-> 0, fpos |-> 0, nrec |-> 0]

\* the thread after if (b >= btop) { ... } with b already advanced, when
\* the memcpy is within the buffer (2371-2383)
Refill(r, p) ==
  IF r.b < r.btop THEN r
  ELSE LET ex  == r.bend - r.b
           mv  == [r EXCEPT !.buf = [x \in DOMAIN r.buf |->
                                       IF x < ex THEN r.buf[r.b + x] ELSE r.buf[x]]]
           rd  == ReadInto(mv, p, ex, IOLen - ex)
           bnd == ex + rd.cnt
       IN  [mv EXCEPT !.buf = rd.buf, !.fpos = rd.fpos, !.bend = bnd,
                      !.btop = Btop(bnd), !.b = 0,
                      !.pc = IF bnd = 0 THEN "done" ELSE "loop"]

\* the thread after the memcpy of a negative count has returned
Overrun(r, p) ==
  LET ex  == r.bend - r.b
  IN  [r EXCEPT !.buf = [x \in DOMAIN r.buf |-> StaleByte], !.bend = ex,
                !.btop = Btop(ex), !.b = 0]

Threads == Workers

SortInit ==
  /\ spass \in 0..(NPARTS - 1)
  /\ scomp \in {0, 1}
  /\ stale \in StalePool
  /\ \E pool \in {{sd \in SeedPool : Select(sd.icont) = spass}} :
       /\ sfile \in [Threads -> DistinctSeqs(pool, MaxFile)]
       /\ \A q \in Threads : q # 0 => Len(sfile[q]) <= 1
       /\ \A q, u \in Threads : q # u =>
            \A k \in 1..Len(sfile[q]), l \in 1..Len(sfile[u]) : sfile[q][k] # sfile[u][l]
  /\ sbuck = [q \in Threads |-> [j \in 0..(NCONTS - 1) |->
                Cardinality({k \in 1..Len(sfile[q]) : sfile[q][k].icont = j})]]
  /\ rp = [q \in Threads |-> RStart]
  /\ sarr = <<>>
  /\ sphase = "merged"
  /\ scalls = <<>>

\* the running totals and the allocation of the sort array (3353-3387)
SortSetup ==
  /\ sphase = "merged"
  /\ \E c \in {BuckCum(sbuck, 0, 0, 0)} :
       /\ sbuck' = BuckShift(c.buck, NCONTS - 1)
       /\ sarr' = [x \in 0..c.nelmax |-> NoRec]
  /\ sphase' = "load"
  /\ UNCHANGED <<sfile, scomp, spass, stale, rp, scalls, notSort>>

\* reimport_thread up to its loop (2320-2337)
ReimportStart(p) ==
  /\ sphase = "load"
  /\ rp[p].pc = "start"
  /\ \E rd \in {ReadInto(rp[p], p, 0, IOLen)} :
       rp' = [rp EXCEPT ![p] = [@ EXCEPT !.buf = rd.buf, !.fpos = rd.fpos,
                                         !.bend = rd.cnt, !.btop = Btop(rd.cnt),
                                         !.b = 0, !.pc = "loop"]]
  /\ UNCHANGED <<sfile, scomp, spass, stale, sbuck, sarr, sphase, scalls, notSort>>

\* one iteration of while (1) of reimport_thread (2339-2384).  A write
\* beyond the sort array and a memcpy of a negative count are undefined:
\* the thread dies, or it goes on with what the buffer then holds.
ReimportRecord(p) ==
  /\ sphase = "load"
  /\ rp[p].pc = "loop"
  /\ \E sd \in {Decode(rp[p], p)} :
     \E x \in {sbuck[p][sd.icont]} :
     \E r1 \in {[rp[p] EXCEPT !.b = @ + IUnit, !.nrec = @ + 1]} :
       /\ sbuck' = [sbuck EXCEPT ![p][sd.icont] = @ + 1]
       /\ \/ /\ x \in DOMAIN sarr
             /\ sarr' = [sarr EXCEPT ![x] = SortRec(sd)]
             /\ \/ /\ (r1.b < r1.btop \/ r1.bend - r1.b >= 0)
                   /\ rp' = [rp EXCEPT ![p] = Refill(r1, p)]
                \/ /\ r1.b >= r1.btop /\ r1.bend - r1.b < 0
                   /\ \/ rp' = [rp EXCEPT ![p] = [r1 EXCEPT !.pc = "crashed"]]
                      \/ /\ r1.nrec < Len(sfile[p]) + MaxStray
                         /\ rp' = [rp EXCEPT ![p] = Overrun(r1, p)]
          \/ /\ x \notin DOMAIN sarr
             /\ sarr' = sarr
             /\ rp' = [rp EXCEPT ![p] = [r1 EXCEPT !.pc = "crashed"]]
  /\ UNCHANGED <<sfile, scomp, spass, stale, sphase, scalls, notSort>>

\* the key of rmsd_sort: the last swide-2 bytes of a record, the last byte
\* the most significant (ipost, pdiag, jcont in memory order)
KeyLeq(r, s) ==
  \/ r.jcont < s.jcont
  \/ r.jcont = s.jcont /\ r.pdiag < s.pdiag
  \/ r.jcont = s.jcont /\ r.pdiag = s.pdiag /\ r.ipost <= s.ipost

\* the slots of the panel of a-contig j (3488-3495)
PanelLo(j) == IF j = IDBsplit(spass) THEN 0 ELSE sbuck[NTHREADS - 1][j - 1]
PanelHi(j) == sbuck[NTHREADS - 1][j]
Nels == PanelHi(IDBsplit(spass + 1) - 1)
Slots == Cardinality(DOMAIN sarr)

\* the arrangements rmsd_sort may leave: each panel in key order
Sorted(arr) ==
  {[x \in DOMAIN arr |-> IF x < Nels THEN arr[pi[x]] ELSE arr[x]] :
     pi \in {f \in Permutations(0..(Nels - 1)) :
               /\ \A x \in 0..(Nels - 1) :
                    \E j \in PassConts : /\ PanelLo(j) <= x /\ x < PanelHi(j)
                                         /\ PanelLo(j) <= f[x] /\ f[x] < PanelHi(j)
               /\ \A x \in 0..(Nels - 2) :
                    (\E j \in PassConts : PanelLo(j) <= x /\ x + 1 < PanelHi(j))
                       => KeyLeq(arr[f[x]], arr[f[x + 1]])}}

\* the panels are taken from buck[] and the array is sorted (3485-3508)
SortPanels ==
  /\ sphase = "load"
  /\ \A q \in Threads : rp[q].pc = "done"
  /\ Nels <= Slots
  /\ sarr' \in Sorted(sarr)
  /\ sphase' = "sorted"
  /\ UNCHANGED <<sfile, scomp, spass, stale, rp, sbuck, scalls, notSort>>

\* panel[j] in records (3488-3493)
PanelLen(j) == PanelHi(j) - PanelLo(j)

\* the inner loop of search_seeds over the records after b up to e
\* (3305-3310): a call for every change of b-contig
RECURSIVE WalkPanel(_, _, _, _, _, _)
WalkPanel(arr, icrnt, e, x, b, w) ==
  IF x >= e THEN [x |-> x, b |-> b, jcrnt |-> w.jcrnt, calls |-> w.calls]
  ELSE IF arr[x].jcont # w.jcrnt
       THEN WalkPanel(arr, icrnt, e, x + 1, x,
                      [jcrnt |-> arr[x].jcont,
                       calls |-> Append(w.calls, [b |-> b, x |-> x, icrnt |-> icrnt,
                                                   jcrnt |-> w.jcrnt])])
       ELSE WalkPanel(arr, icrnt, e, x + 1, b, w)

\* the loop over the a-contigs of a range (3300-3313): jcrnt is read at x,
\* x is advanced and the last call of the a-contig made, whatever panel[icrnt]
RECURSIVE WalkRange(_, _, _, _, _)
WalkRange(arr, icrnt, end, x, made) ==
  IF icrnt >= end THEN [calls |-> made, x |-> x]
  ELSE LET r == WalkPanel(arr, icrnt, x + PanelLen(icrnt), x + 1, x,
                          [jcrnt |-> arr[x].jcont, calls |-> made])
       IN  WalkRange(arr, icrnt + 1, end, r.x,
                     Append(r.calls, [b |-> r.b, x |-> r.x, icrnt |-> icrnt,
                                      jcrnt |-> r.jcrnt]))

\* range[] as rmsd_sort returns it: the a-contigs of the part, cut in two,
\* with the offset of the first record of each
Ranges ==
  {[p \in Threads |->
      IF p = 0 THEN [beg |-> IDBsplit(spass), end |-> c, off |-> 0]
      ELSE [beg |-> c, end |-> IDBsplit(spass + 1),
            off |-> IF c = IDBsplit(spass) THEN 0 ELSE PanelHi(c - 1)]] :
     c \in IDBsplit(spass)..IDBsplit(spass + 1)}

\* the search threads of the round (3520-3532): search_seeds on each range
SearchRanges ==
  /\ sphase = "sorted"
  /\ \E range \in Ranges :
       scalls' = [p \in Threads |->
                    [range |-> range[p],
                     walk  |-> WalkRange(sarr, range[p].beg, range[p].end,
                                         range[p].off, <<>>)]]
  /\ sphase' = "searched"
  /\ UNCHANGED <<sfile, scomp, spass, stale, rp, sbuck, sarr, notSort>>

SortNext == \/ SortSetup
            \/ \E p \in Threads : ReimportStart(p) \/ ReimportRecord(p)
            \/ SortPanels
            \/ SearchRanges

(***************************************************************************)
(* The chain search of align_contigs over the sorted records crecs of one  *)
(* contig pair: beg is record 0, end is record Len(crecs).                 *)
(*   ccomp   the strand (comp);  cend  the pdiag bytes found at end        *)
(*   cw      the locals of align_contigs: b, m, e, s, t as record indices  *)
(*   calls   the calls of Local_Alignment so far                           *)
(*   clast   what the last iteration of while (go) did                     *)
(* cw also keeps what was done so far: wins, the triples b, m, e found     *)
(* with cdiag, new, aux and whether they were examined, and evals, the     *)
(* chains that came to the test of 2816 with their window.                 *)
(***************************************************************************)
MAX_INT64 == 2147483647   \* 0x7fff..., here the largest integer of TLC
MaxSeeds  == 4            \* most seed records of the contig pair
ChainALen == BLens[1]     \* alen
ChainBLen == BLens[1]     \* blen

SRec(l, ip, pd, dr) == [lcp |-> l, ipost |-> ip, pdiag |-> pd, drem |-> dr]
\* the sorted records the contig pair is drawn from, in (pdiag, ipost) order
ChainPool == <<SRec(14, 0, 0, 10),  SRec(14, 8, 0, 10),  SRec(14, 24, 0, 20),
               SRec(12, 30, 0, 60), SRec(12, 1, 1, 2),   SRec(12, 40, 1, 6),
               SRec(14, 50, 2, 0),  SRec(14, 3, 4, 7)>>

RECURSIVE SubSeqs(_, _)
\* the subsequences of q[k..] of at most n elements
SubSeqs(k, n) ==
  IF k > Len(ChainPool) \/ n = 0 THEN {<<>>}
  ELSE SubSeqs(k + 1, n) \cup {<<ChainPool[k]>> \o r : r \in SubSeqs(k + 1, n - 1)}

CEnd == Len(crecs)
DiagAt(i)  == IF i < CEnd THEN crecs[i + 1].pdiag ELSE cend
IpostAt(i) == IF i < CEnd THEN crecs[i + 1].ipost ELSE 0
LcpAt(i)   == IF i < CEnd THEN crecs[i + 1].lcp ELSE 0
DremAt(i)  == IF i < CEnd THEN crecs[i + 1].drem ELSE 0

RECURSIVE ScanDiag(_, _)
\* while (ndiag == d && e < end) e += swide
ScanDiag(e, d) == IF DiagAt(e) = d /\ e < CEnd THEN ScanDiag(e + 1, d) ELSE e

\* align_contigs up to its loop (2672-2700); new is not initialised
ChainStart(new) ==
  LET e == ScanDiag(0, DiagAt(0))
  IN  [pc |-> "window", b |-> 0, m |-> 0, e |-> e, cdiag |-> DiagAt(0),
       ndiag |-> DiagAt(e), new |-> new, aux |-> 0, s |-> 0, t |-> 0,
       ipost |-> 0, apost |-> 0, lps |-> 0, cov |-> 0, go |-> 0, mix |-> 0,
       list |-> <<>>, dgmin |-> 0, dgmax |-> 0, apmin |-> 0, alast |-> 0,
       doffset |-> 0, nhit |-> 0, nlas |-> 0, chain |-> <<>>,
       tfile |-> <<>>, wins |-> <<>>, evals |-> <<>>]

ExtendsAtBreak(npost, lps) == npost <= lps + CHAIN_BREAK
\* if (npost < lps + CHAIN_BREAK) (2796)
Extends(npost, lps) == npost < lps + CHAIN_BREAK

CovAddLcp(cov, lps, npost, lcp) == cov + lcp
\* cov after the seed (npost, lcp) joins a chain that ends at lps (2799-2806)
CovAdd(cov, lps, npost, lcp) ==
  IF npost + lcp > lps
  THEN (IF npost >= lps THEN cov + lcp ELSE cov + (npost + lcp) - lps)
  ELSE cov

\* if (cov >= CHAIN_MIN && (mix != 1 || new)) (2816)
ChainPasses(cov, mix, new) == cov >= CHAIN_MIN /\ (mix # 1 \/ new # 0)
JPassesAlways(jcov) == TRUE
\* if (jcov >= CHAIN_MIN) (2866)
JPasses(jcov) == jcov >= CHAIN_MIN

\* JSORT: list in the order of jpost (2617-2622, 2844)
RECURSIVE JSorted(_)
JSorted(S) ==
  IF S = {} THEN <<>>
  ELSE LET x == CHOOSE y \in S :
                  \A z \in S : y.jpost < z.jpost
                            \/ (y.jpost = z.jpost /\ y.lcp < z.lcp)
                            \/ (y.jpost = z.jpost /\ y.lcp = z.lcp /\ y.k <= z.k)
       IN  <<x>> \o JSorted(S \ {x})

RECURSIVE JCovLoop(_, _, _, _)
\* for (k = 0; k < len; k++) ... over the sorted list (2846-2859)
JCovLoop(q, k, jlps, jcov) ==
  IF k > Len(q) THEN jcov
  ELSE LET jcps == q[k].jpost + q[k].lcp
       IN  IF jcps > jlps
           THEN JCovLoop(q, k + 1, jcps,
                         IF q[k].jpost >= jlps THEN jcov + q[k].lcp
                         ELSE jcov + jcps - jlps)
           ELSE JCovLoop(q, k + 1, jlps, jcov)

JCovOf(list) ==
  JCovLoop(JSorted({[jpost |-> list[k].jpost, lcp |-> list[k].lcp, k |-> k] :
                      k \in 1..Len(list)}), 1, -128, 0)

\* mix |= wch
MixOr(mix, wch) == IF mix = wch THEN mix ELSE 3

\* what Local_Alignment may return for a chain over [apmin, apmax]
AlnResults(apmin, apmax) ==
  {[abpos |-> Max(0, Min(apmin, ChainALen)), aepos |-> Max(0, Min(apmax, ChainALen))],
   [abpos |-> Max(0, Min(apmin, ChainALen)), aepos |-> Max(0, Min(apmin, ChainALen))],
   [abpos |-> 0, aepos |-> ChainALen]}

\* the seed taken next, ipost read from the record at m where [b,m) ends
PickSeedNoSentinel(w) ==
  IF w.apost < w.ipost
  THEN [lcp |-> LcpAt(w.t), dg |-> DremAt(w.t) + BUCK_WIDTH, npost |-> w.apost,
        wch |-> 2, idx |-> w.t,
        w |-> [w EXCEPT !.t = w.t + 1,
                        !.apost = IF w.t + 1 >= w.e THEN MAX_INT64
                                  ELSE IpostAt(w.t + 1)]]
  ELSE [lcp |-> LcpAt(w.s), dg |-> DremAt(w.s), npost |-> w.ipost,
        wch |-> 1, idx |-> IF w.s < w.m THEN w.s ELSE -1,
        w |-> [w EXCEPT !.s = w.s + 1,
                        !.go = IF w.s + 1 > w.m THEN 0 ELSE w.go,
                        !.ipost = IF w.s + 1 > w.m THEN w.ipost
                                  ELSE IpostAt(w.s + 1)]]

\* The seed the merge of [b,m) and [m,e) takes next (2769-2794): its lcp,
\* dg, npost and wch, its record idx (-1 past the last record), and the
\* locals after it is taken.
PickSeed(w) ==
  IF w.apost < w.ipost
  THEN [lcp |-> LcpAt(w.t), dg |-> DremAt(w.t) + BUCK_WIDTH, npost |-> w.apost,
        wch |-> 2, idx |-> w.t,
        w |-> [w EXCEPT !.t = w.t + 1,
                        !.apost = IF w.t + 1 >= w.e THEN MAX_INT64
                                  ELSE IpostAt(w.t + 1)]]
  ELSE [lcp |-> LcpAt(w.s), dg |-> DremAt(w.s), npost |-> w.ipost,
        wch |-> 1, idx |-> IF w.s < w.m THEN w.s ELSE -1,
        w |-> [w EXCEPT !.s = w.s + 1,
                        !.go = IF w.s + 1 > w.m THEN 0 ELSE w.go,
                        !.ipost = IF w.s + 1 > w.m THEN w.ipost
                                  ELSE IF w.s + 1 = w.m THEN MAX_INT64
                                  ELSE IpostAt(w.s + 1)]]

\* the seed joins the chain (2797-2813)
ExtendChain(w, pk) ==
  [w EXCEPT !.cov = CovAdd(w.cov, w.lps, pk.npost, pk.lcp),
            !.lps = Max(w.lps, pk.npost + pk.lcp),
            !.list = Append(w.list, [jpost |-> pk.npost - pk.dg, lcp |-> pk.lcp]),
            !.mix = MixOr(w.mix, pk.wch),
            !.dgmin = IF pk.dg < w.dgmin THEN pk.dg ELSE w.dgmin,
            !.dgmax = IF pk.dg < w.dgmin THEN w.dgmax
                      ELSE IF pk.dg > w.dgmax THEN pk.dg ELSE w.dgmax,
            !.chain = Append(w.chain, pk.idx)]

MoAlways(apmin, apmax, alast) == TRUE
\* mo = (apmax <= alast) for comp, mo = (apmin >= alast) otherwise
\* (2915, 2923)
Mo(apmin, apmax, alast) == IF ccomp = 1 THEN apmax <= alast ELSE apmin >= alast

\* the tests on the chain that has ended and the arguments of the aligner
\* (2816-2928)
Evaluate(w) ==
  LET pass  == ChainPasses(w.cov, w.mix, w.new)
      jcov  == JCovOf(w.list)
      jpass == pass /\ JPasses(jcov)
      apmax == w.lps
      mo    == Mo(w.apmin, apmax, w.alast)
      aoffs == ChainALen - KMER
      dlo   == IF ccomp = 1 THEN w.doffset - w.dgmax ELSE w.dgmin + w.doffset
      dhi   == IF ccomp = 1 THEN w.doffset - w.dgmin ELSE w.dgmax + w.doffset
      anti  == IF ccomp = 1
               THEN (2 * aoffs - (w.apmin + apmax)) - ((dhi + dlo) \div 2)
               ELSE (w.apmin + apmax) - ((dhi + dlo) \div 2)
  IN  [pass |-> pass, jcov |-> jcov, jpass |-> jpass, call |-> jpass /\ mo,
       apmin |-> w.apmin, apmax |-> apmax, dgmin |-> dlo, dgmax |-> dhi,
       anti |-> anti]

\* if (go) { cov = lcp; ... } (2976-2985)
ResetChain(w, pk) ==
  IF w.go = 0 THEN w
  ELSE [w EXCEPT !.cov = pk.lcp, !.lps = pk.npost + pk.lcp, !.mix = pk.wch,
                 !.list = <<[jpost |-> pk.npost - pk.dg, lcp |-> pk.lcp]>>,
                 !.dgmin = pk.dg, !.dgmax = pk.dg, !.apmin = pk.npost,
                 !.chain = <<pk.idx>>]

AcceptedAlways(res) == TRUE
\* if (path->aepos - path->abpos >= ALIGN_MIN) (2948)
Accepted(res) == res.aepos - res.abpos >= ALIGN_MIN

\* the locals and the temporary file after Local_Alignment returned res
\* (2936-2963)
Aligned(w, res) ==
  [w EXCEPT !.nlas = IF Accepted(res) THEN w.nlas + 1 ELSE w.nlas,
            !.tfile = IF Accepted(res) THEN Append(w.tfile, res) ELSE w.tfile,
            !.alast = IF ccomp = 1 THEN ChainALen - res.abpos ELSE res.aepos]

\* e += IPOST ... once go is 0 (3007-3010)
Leave(w) == [w EXCEPT !.pc = IF w.go = 0 THEN "advance" ELSE "merge"]

ChainEvent(kind, pk, w, ev, called) ==
  [kind |-> kind, idx |-> pk.idx, npost |-> pk.npost, lcp |-> pk.lcp,
   chain |-> w.chain, cov |-> w.cov, lps |-> w.lps, jcov |-> ev.jcov,
   pass |-> ev.pass, jpass |-> ev.jpass, called |-> called]
NoEvent == [kind |-> "none", idx |-> -1, npost |-> 0, lcp |-> 0, chain |-> <<>>,
            cov |-> 0, lps |-> 0, jcov |-> 0, pass |-> FALSE, jpass |-> FALSE,
            called |-> FALSE]

ChainInit ==
  /\ CHAIN_BREAK \in {10, 20}
  /\ CHAIN_MIN \in {12, 13, 16}
  /\ ALIGN_MIN \in {14, 20}
  /\ ccomp \in {0, 1}
  /\ crecs \in SubSeqs(1, MaxSeeds) \ {<<>>}
  /\ cend \in {crecs[Len(crecs)].pdiag, crecs[Len(crecs)].pdiag + 1}
  /\ \E new \in {0, 1} : cw = ChainStart(new)
  /\ calls = <<>>
  /\ clast = NoEvent

\* the head of while (1): the window b, m, e and, if it is examined, the
\* start of the merge (2709-2767)
ChainWindow ==
  /\ cw.pc = "window"
  /\ \E e \in {ScanDiag(cw.e, cw.cdiag + 1)} :
     \E aux \in {IF e > cw.e THEN 1 ELSE 0} :
     \E win \in {[b |-> cw.b, m |-> cw.e, e |-> e, cdiag |-> cw.cdiag,
                  new |-> cw.new, aux |-> aux,
                  examined |-> (cw.new # 0 \/ aux # 0)]} :
       cw' = IF cw.new # 0 \/ aux # 0
             THEN [cw EXCEPT !.pc = "merge", !.m = cw.e, !.e = e, !.aux = aux,
                     !.wins = Append(@, win),
                     !.ndiag = DiagAt(e),
                     !.doffset = IF ccomp = 1
                                 THEN (ChainALen - KMER) - cw.cdiag * BUCK_WIDTH
                                 ELSE cw.cdiag * BUCK_WIDTH - ChainBLen,
                     !.alast = IF ccomp = 1 THEN ChainALen + 1 ELSE -1,
                     !.s = cw.b, !.ipost = IpostAt(cw.b), !.t = cw.e,
                     !.apost = IF aux = 1 THEN IpostAt(cw.e) ELSE MAX_INT64,
                     !.lps = -CHAIN_BREAK, !.cov = 0, !.go = 1,
                     !.chain = <<>>, !.list = <<>>]
             ELSE [cw EXCEPT !.pc = "advance", !.m = cw.e, !.e = e, !.aux = aux,
                     !.wins = Append(@, win),
                     !.ndiag = DiagAt(e)]
  /\ clast' = NoEvent
  /\ UNCHANGED <<CHAIN_BREAK, CHAIN_MIN, ALIGN_MIN, crecs, ccomp, cend, calls, notChain>>

\* one iteration of while (go) in which the seed joins the chain
ChainExtend ==
  /\ cw.pc = "merge"
  /\ \E pk \in {PickSeed(cw)} :
       /\ Extends(pk.npost, cw.lps)
       /\ cw' = Leave(ExtendChain(pk.w, pk))
       /\ clast' = ChainEvent("extend", pk, cw, Evaluate(cw), FALSE)
  /\ UNCHANGED <<CHAIN_BREAK, CHAIN_MIN, ALIGN_MIN, crecs, ccomp, cend, calls, notChain>>

\* one iteration of while (go) in which the chain ends: it is tested, the
\* aligner is called if it passes, and the seed starts the next chain
ChainBreak ==
  /\ cw.pc = "merge"
  /\ \E pk \in {PickSeed(cw)} :
     \E ev \in {Evaluate(cw)} :
     \E w1 \in {[pk.w EXCEPT !.nhit = IF ev.pass THEN @ + 1 ELSE @,
                             !.evals = Append(@, [win |-> Len(cw.wins),
                                                  chain |-> cw.chain,
                                                  cov |-> cw.cov, mix |-> cw.mix,
                                                  pass |-> ev.pass])]} :
       /\ ~Extends(pk.npost, cw.lps)
       /\ clast' = ChainEvent(IF pk.idx = -1 THEN "end" ELSE "break",
                              pk, cw, ev, ev.call)
       /\ \/ /\ ev.call
             /\ \E res \in AlnResults(ev.apmin, ev.apmax) :
                  /\ cw' = Leave(ResetChain(Aligned(w1, res), pk))
                  /\ calls' = Append(calls, [cdiag |-> cw.cdiag, apmin |-> ev.apmin,
                                             apmax |-> ev.apmax,
                                             cov |-> cw.cov, jcov |-> ev.jcov,
                                             chain |-> cw.chain, dgmin |-> ev.dgmin,
                                             dgmax |-> ev.dgmax, anti |-> ev.anti,
                                             res |-> res])
          \/ /\ ~ev.call
             /\ cw' = Leave(ResetChain(w1, pk))
             /\ calls' = calls
  /\ UNCHANGED <<CHAIN_BREAK, CHAIN_MIN, ALIGN_MIN, crecs, ccomp, cend, notChain>>

\* the end of while (1): the next window, or the end of the search
\* (3013-3028)
ChainAdvance ==
  /\ cw.pc = "advance"
  /\ cw' = IF cw.e >= CEnd THEN [cw EXCEPT !.pc = "done"]
           ELSE IF cw.aux # 0
           THEN [cw EXCEPT !.pc = "window", !.b = cw.m, !.cdiag = cw.cdiag + 1,
                           !.new = 0]
           ELSE [cw EXCEPT !.pc = "window", !.b = cw.e, !.cdiag = cw.ndiag,
                           !.e = ScanDiag(cw.e, cw.ndiag),
                           !.ndiag = DiagAt(ScanDiag(cw.e, cw.ndiag)), !.new = 1]
  /\ clast' = NoEvent
  /\ UNCHANGED <<CHAIN_BREAK, CHAIN_MIN, ALIGN_MIN, crecs, ccomp, cend, calls, notChain>>

ChainNext == ChainWindow \/ ChainExtend \/ ChainBreak \/ ChainAdvance

(***************************************************************************)
(* The redundancy filter of align_contigs (3031-3220).  oblock holds the   *)
(* alignments of the contig pair in the order they were written to the     *)
(* temporary file; each has its a- and b-interval, its diffs and, for      *)
(* every TSPACE panel of a it crosses, the b-length of its trace there     *)
(* (the odd entries of the trace).                                         *)
(***************************************************************************)
TSPACE == 100
MaxAln == 3             \* most alignments of the contig pair

Ovl(ab, ae, bb, be, d, tr) ==
  [abpos |-> ab, aepos |-> ae, bbpos |-> bb, bepos |-> be, diffs |-> d, trace |-> tr]
\* the alignments the aligner may have found for the contig pair
OvlPool == <<Ovl(0, 150, 0, 150, 5, <<100, 50>>),
             Ovl(0, 150, 0, 150, 2, <<100, 50>>),
             Ovl(0, 120, 0, 120, 1, <<100, 20>>),
             Ovl(50, 150, 50, 150, 1, <<50, 50>>),
             Ovl(0, 200, 0, 200, 3, <<100, 100>>),
             Ovl(20, 120, 10, 110, 0, <<80, 20>>),
             Ovl(5, 200, 12, 207, 4, <<95, 100>>),
             Ovl(50, 250, 40, 250, 6, <<60, 100, 50>>),
             Ovl(150, 250, 0, 100, 2, <<50, 50>>),
             Ovl(5, 200, 2, 207, 1, <<105, 100>>),
             Ovl(0, 150, 0, 140, 3, <<95, 45>>),
             Ovl(0, 260, 0, 260, 7, <<100, 100, 60>>)>>

RECURSIVE OvlSeqs(_, _)
\* the sequences of at most n alignments of the pool from the k-th on, an
\* alignment possibly found more than once
OvlSeqs(k, n) ==
  IF k > Len(OvlPool) \/ n = 0 THEN {<<>>}
  ELSE OvlSeqs(k + 1, n) \cup {<<OvlPool[k]>> \o r : r \in OvlSeqs(k, n - 1)}

nlas == Len(oblock)
\* jtrace[i] for an odd i
TraceAt(path, i) == path.trace[(i + 1) \div 2]

\* min updated to the difference nearer to 0, a change of sign not noted
MinStepNearer(min, i) ==
  IF min < 0 /\ min < i THEN i
  ELSE IF min > 0 /\ min > i THEN i
  ELSE min

\* the update of min by the difference i (2511-2522, 2551-2562)
MinStep(min, i) ==
  IF min < 0 /\ min < i THEN (IF i >= 0 THEN 0 ELSE i)
  ELSE IF min > 0 /\ min > i THEN (IF i <= 0 THEN 0 ELSE i)
  ELSE min

RECURSIVE EntwineLoopFirstZero(_, _, _, _)
\* the loop of entwine keeping in where the first boundary with difference 0
EntwineLoopFirstZero(jpath, kpath, ae, st) ==
  IF st.ac >= ae THEN st
  ELSE LET y2 == st.y2 + TraceAt(jpath, st.j)
           b2 == st.b2 + TraceAt(kpath, st.k)
           i  == b2 - y2
       IN  EntwineLoopFirstZero(jpath, kpath, ae,
             [ac |-> st.ac + TSPACE, y2 |-> y2, b2 |-> b2, j |-> st.j + 2,
              k |-> st.k + 2, min |-> MinStep(st.min, i),
              where |-> IF i = 0 /\ st.where = -1 THEN st.ac ELSE st.where])

RECURSIVE EntwineLoop(_, _, _, _)
\* for (ac += TSPACE; ac < ae; ac += TSPACE) (2497-2525)
EntwineLoop(jpath, kpath, ae, st) ==
  IF st.ac >= ae THEN st
  ELSE LET y2 == st.y2 + TraceAt(jpath, st.j)
           b2 == st.b2 + TraceAt(kpath, st.k)
           i  == b2 - y2
       IN  EntwineLoop(jpath, kpath, ae,
             [ac |-> st.ac + TSPACE, y2 |-> y2, b2 |-> b2, j |-> st.j + 2,
              k |-> st.k + 2, min |-> MinStep(st.min, i),
              where |-> IF i = 0 THEN st.ac ELSE st.where])

\* entwine (2455-2574): the returned min and *where
entwine(jpath, kpath) ==
  LET k0 == kpath.abpos \div TSPACE
      ac == k0 * TSPACE
      j  == 1 + 2 * (k0 - (jpath.abpos \div TSPACE))
      y2 == jpath.bbpos + SumTo(jpath.trace, 1, (j - 1) \div 2)
      yp == IF j = 1
            THEN y2 + (TraceAt(jpath, j) * (kpath.abpos - jpath.abpos))
                        \div (ac + TSPACE - jpath.abpos)
            ELSE y2 + (TraceAt(jpath, j) * (kpath.abpos - ac)) \div TSPACE
      ae == Min(jpath.aepos, kpath.aepos)
      st == EntwineLoop(jpath, kpath, ae,
              [ac |-> ac + TSPACE, y2 |-> y2, b2 |-> kpath.bbpos, j |-> j, k |-> 1,
               min |-> kpath.bbpos - yp, where |-> -1])
      lc == st.ac - TSPACE
      fy == IF ae = jpath.aepos THEN jpath.bepos
            ELSE IF jpath.aepos >= lc
                 THEN st.y2 + (TraceAt(jpath, st.j) * (ae - lc)) \div TSPACE
                 ELSE st.y2 + (TraceAt(jpath, st.j) * (ae - lc)) \div (jpath.aepos - lc)
      fb == IF ae # jpath.aepos THEN kpath.bepos
            ELSE IF kpath.aepos >= lc
                 THEN st.b2 + (TraceAt(kpath, st.k) * (ae - lc)) \div TSPACE
                 ELSE st.b2 + (TraceAt(kpath, st.k) * (ae - lc)) \div (kpath.aepos - lc)
  IN  [dist |-> MinStep(st.min, fb - fy), where |-> st.where]

ELIMINATED == 4
\* the orders qsort_r may leave perm in: any order with abpos ascending
\* (ALN_SORT, 2624-2632, 3056)
AlnSorted == {p \in [1..nlas -> 1..nlas] :
                /\ \A i, j \in 1..nlas : i # j => p[i] # p[j]
                /\ \A i, j \in 1..nlas :
                     i < j => oblock[p[i]].abpos <= oblock[p[j]].abpos}

\* the alignment perm[j] points to, and whether it is flagged
PathAt(j) == oblock[perm[j + 1]]
Flagged(j) == eflags[perm[j + 1]] = ELIMINATED
Flag(j) == [eflags EXCEPT ![perm[j + 1]] = ELIMINATED]

SameStart(op, wp) == op.abpos = wp.abpos /\ op.bbpos = wp.bbpos
SameEndNever(op, wp) == FALSE
SameEnd(op, wp) == op.aepos = wp.aepos /\ op.bepos = wp.bepos

\* the first pass flagging w whenever o and w share a start or an end
Pass1CaseFlagsW(op, wp) ==
  IF SameStart(op, wp) \/ SameEnd(op, wp) THEN "w" ELSE "none"

\* which of o and w the first pass flags (3073-3108)
Pass1Case(op, wp) ==
  IF SameStart(op, wp)
  THEN IF SameEnd(op, wp)
       THEN (IF op.diffs < wp.aepos THEN "w" ELSE "o")
       ELSE (IF op.aepos > wp.aepos THEN "w" ELSE "o")
  ELSE IF SameEnd(op, wp)
       THEN (IF op.abpos < wp.abpos THEN "w" ELSE "o")
       ELSE "none"

\* dist and where of the second pass: set by entwine unless the b-intervals
\* are disjoint (3125-3127)
NoEnt == [called |-> FALSE, dist |-> 0, where |-> -1]
Pass2Ent(op, wp) ==
  IF op.bepos <= wp.bbpos \/ op.bbpos >= wp.bepos THEN NoEnt
  ELSE LET e == entwine(op, wp)
       IN  [called |-> TRUE, dist |-> e.dist, where |-> e.where]

\* which of o and w the second pass flags (3127-3147)
Pass2Case(op, wp) ==
  IF op.bepos <= wp.bbpos \/ op.bbpos >= wp.bepos THEN "none"
  ELSE LET e == Pass2Ent(op, wp)
       IN  IF e.where # -1 THEN "none"
           ELSE IF e.dist < 0 /\ wp.bepos <= op.bepos + 10 THEN "w"
           ELSE IF e.dist > 0 /\ wp.abpos <= op.abpos + 10
                              /\ wp.bepos + 10 >= op.bepos THEN "o"
           ELSE "none"

NoCmp == [pass |-> 0, o |-> 0, w |-> 0, gone |-> "none", ent |-> NoEnt]

FilterInit ==
  /\ oblock \in OvlSeqs(1, MaxAln)
  /\ perm = <<>>
  /\ eflags = [i \in 1..Len(oblock) |-> 0]
  /\ fpc = "start"
  /\ fj = 0
  /\ fk = 0
  /\ ofile = <<>>
  /\ fcmp = NoCmp

\* if (nlas > 0) { ... qsort_r(perm, ...) (3033-3056)
FilterStart ==
  /\ fpc = "start"
  /\ IF nlas > 0
     THEN /\ perm' \in AlnSorted
          /\ fpc' = "pass1"
          /\ fj' = nlas - 1
          /\ fk' = nlas
     ELSE /\ fpc' = "done"
          /\ UNCHANGED <<perm, fj, fk>>
  /\ UNCHANGED <<oblock, eflags, ofile, fcmp, notFilter>>

\* one step of the loops over j and k of a pass: the next pass after the
\* last j, the next j after the last k, or the comparison of o = perm[j]
\* with w = perm[k]
PassStep(pass, next, skip, case, ent) ==
  /\ IF fj < 0
     THEN /\ fpc' = next
          /\ fj' = nlas - 1
          /\ fk' = nlas
          /\ UNCHANGED eflags
          /\ fcmp' = NoCmp
     ELSE IF skip \/ fk >= nlas \/ PathAt(fj).aepos <= PathAt(fk).abpos
     THEN /\ fj' = fj - 1
          /\ fk' = fj
          /\ UNCHANGED <<fpc, eflags>>
          /\ fcmp' = NoCmp
     ELSE IF Flagged(fk)
     THEN /\ fk' = fk + 1
          /\ UNCHANGED <<fpc, fj, eflags>>
          /\ fcmp' = NoCmp
     ELSE /\ fcmp' = [pass |-> pass, o |-> perm[fj + 1], w |-> perm[fk + 1],
                      gone |-> case, ent |-> ent]
          /\ UNCHANGED fpc
          /\ IF case = "o"
             THEN /\ eflags' = Flag(fj)
                  /\ fj' = fj - 1
                  /\ fk' = fj
             ELSE /\ eflags' = IF case = "w" THEN Flag(fk) ELSE eflags
                  /\ fk' = fk + 1
                  /\ UNCHANGED fj
  /\ UNCHANGED <<oblock, perm, ofile, notFilter>>

\* the first pass (3060-3110)
FilterPass1 ==
  /\ fpc = "pass1"
  /\ PassStep(1, "pass2", FALSE,
              IF fj >= 0 /\ fk < nlas THEN Pass1Case(PathAt(fj), PathAt(fk)) ELSE "none",
              NoEnt)

\* the second pass (3112-3204)
FilterPass2 ==
  /\ fpc = "pass2"
  /\ PassStep(2, "write", fj >= 0 /\ fk = fj + 1 /\ Flagged(fj),
              IF fj >= 0 /\ fk < nlas /\ PathAt(fj).aepos > PathAt(fk).abpos
              THEN Pass2Case(PathAt(fj), PathAt(fk)) ELSE "none",
              IF fj >= 0 /\ fk < nlas /\ PathAt(fj).aepos > PathAt(fk).abpos
              THEN Pass2Ent(PathAt(fj), PathAt(fk)) ELSE NoEnt)

\* the alignments that are not flagged go to the output in the order of
\* perm (3206-3215)
FilterWrite ==
  /\ fpc = "write"
  /\ ofile' = SelectSeq(perm, LAMBDA i : eflags[i] # ELIMINATED)
  /\ fpc' = "done"
  /\ fcmp' = NoCmp
  /\ UNCHANGED <<oblock, perm, eflags, fj, fk, notFilter>>

FilterNext == FilterStart \/ FilterPass1 \/ FilterPass2 \/ FilterWrite
\* nliv and ncov after the filter (3213-3214)
nliv == Len(ofile)
ncov == SumTo([i \in 1..Len(ofile) |-> oblock[ofile[i]].aepos - oblock[ofile[i]].abpos],
              1, Len(ofile))

(***************************************************************************)
(* The specifications: one stage runs, the others stand still.             *)
(***************************************************************************)
(***************************************************************************)
(* The seed shard files from their creation by the merge to their removal  *)
(* by pair_sort_search (main 3835-3894, adaptamer_merge 2214-2246,         *)
(* merge_thread 2164-2179, pair_sort_search 3440-3468).                    *)
(*   uname[k]   the number x in the name <root>.x.N / <root>.x.C that      *)
(*              N_Units[k].name and C_Units[k].name point to               *)
(*   ufile[n]   the file named n = <<family, x>>: st "none", "open" (being *)
(*              written), "closed", "gone" (unlinked); row and part it was *)
(*              created for; len, 0 for a file without records; opens, the *)
(*              opens for reading; gone, the round that unlinked it        *)
(*   upc        where main is: pc, and the round (u, i) of the sort        *)
(*   uthr[p]    thread p of the running stage: "idle", "run", "joined"     *)
(***************************************************************************)
NUnits == NPARTS * NTHREADS
UFams  == <<"N", "C">>
Names  == Families \X (0..(NUnits - 1))

\* the names as they are left in place: unit k keeps name k
Untransposed(k) == k
\* the names after "Effectively transpose N_unit & C_unit matrices"
\* (3876-3887): unit k = j*NTHREADS+i gets the name x = i*NPARTS+j
Transposed(k) == (k % NTHREADS) * NPARTS + (k \div NTHREADS)

NoFile == [st |-> "none", row |-> -1, part |-> -1, len |-> 0, opens |-> <<>>,
           gone |-> <<>>]

ShardInit ==
  /\ uname = [k \in 0..(NUnits - 1) |-> k]
  /\ ufile = [n \in Names |-> NoFile]
  /\ upc = [pc |-> "create", u |-> 0, i |-> 0]
  /\ uthr = [p \in Workers |-> "idle"]

\* adaptamer_merge: the files of row i (nunit = N_Units + i*NPARTS) are
\* created for every worker i and part j, then the workers start
MergeCreate ==
  /\ upc.pc = "create"
  /\ ufile' = [n \in Names |->
                 LET k == CHOOSE h \in 0..(NUnits - 1) : uname[h] = n[2]
                 IN  [NoFile EXCEPT !.st = "open", !.row = k \div NPARTS,
                                    !.part = k % NPARTS]]
  /\ upc' = [upc EXCEPT !.pc = "merge"]
  /\ uthr' = [p \in Workers |-> "run"]
  /\ UNCHANGED <<uname, notShard>>

\* merge_thread of worker t ends: its buffers are flushed and its files
\* closed, each with or without records
MergeClose(t) ==
  /\ upc.pc = "merge" /\ uthr[t] = "run"
  /\ \E len \in [Families \X (0..(NPARTS - 1)) -> {0, 1}] :
       ufile' = [n \in Names |->
                   IF ufile[n].row = t
                   THEN [ufile[n] EXCEPT !.st = "closed",
                                         !.len = len[<<n[1], ufile[n].part>>]]
                   ELSE ufile[n]]
  /\ uthr' = [uthr EXCEPT ![t] = "joined"]
  /\ UNCHANGED <<uname, upc, notShard>>

\* main after adaptamer_merge has joined its threads: the transposition
Transpose ==
  /\ upc.pc = "merge" /\ \A p \in Workers : uthr[p] = "joined"
  /\ uname' = [k \in 0..(NUnits - 1) |-> Transposed(k)]
  /\ upc' = [pc |-> "load", u |-> 0, i |-> 0]
  /\ uthr' = [p \in Workers |-> "idle"]
  /\ UNCHANGED <<ufile, notShard>>

\* the name nu[p].name of round (u, i): nu = unit[u] + i*NTHREADS
RoundName(u, i, p) == <<UFams[u + 1], uname[i * NTHREADS + p]>>

\* pair_sort_search, round (u, i): the NTHREADS files are opened (each is
\* there: open() succeeds) and the reimport threads started (3444-3463)
RoundOpen ==
  /\ upc.pc = "load"
  /\ \A p \in Workers : ufile[RoundName(upc.u, upc.i, p)].st = "closed"
  /\ ufile' = [n \in Names |->
                 IF \E p \in Workers : n = RoundName(upc.u, upc.i, p)
                 THEN [ufile[n] EXCEPT !.opens =
                         Append(@, [p |-> CHOOSE p \in Workers :
                                            n = RoundName(upc.u, upc.i, p),
                                    u |-> upc.u, i |-> upc.i])]
                 ELSE ufile[n]]
  /\ upc' = [upc EXCEPT !.pc = "reimport"]
  /\ uthr' = [p \in Workers |-> "run"]
  /\ UNCHANGED <<uname, notShard>>

\* reimport_thread p reads its file to the end and closes it; on a file
\* without records the copy of a negative number of bytes (2372-2375) may
\* also end the run
Reimport(p) ==
  /\ upc.pc = "reimport" /\ uthr[p] = "run"
  /\ \/ /\ uthr' = [uthr EXCEPT ![p] = "joined"]
        /\ UNCHANGED upc
     \/ /\ ufile[RoundName(upc.u, upc.i, p)].len = 0
        /\ upc' = [upc EXCEPT !.pc = "fault"]
        /\ UNCHANGED uthr
  /\ UNCHANGED <<uname, ufile, notShard>>

\* after the joins the files of the round are unlinked (3465-3466) and,
\* the part sorted and searched, the next round begins or the function
\* returns
RoundUnlink ==
  /\ upc.pc = "reimport" /\ \A p \in Workers : uthr[p] = "joined"
  /\ ufile' = [n \in Names |->
                 IF \E p \in Workers : n = RoundName(upc.u, upc.i, p)
                 THEN [ufile[n] EXCEPT !.st = "gone",
                         !.gone = <<[u |-> upc.u, i |-> upc.i,
                                     joined |-> {p \in Workers : uthr[p] = "joined"}]>>]
                 ELSE ufile[n]]
  /\ upc' = IF upc.i + 1 < NPARTS THEN [upc EXCEPT !.pc = "load", !.i = upc.i + 1]
            ELSE IF upc.u = 0 THEN [pc |-> "load", u |-> 1, i |-> 0]
            ELSE [upc EXCEPT !.pc = "returned"]
  /\ uthr' = [p \in Workers |-> "idle"]
  /\ UNCHANGED <<uname, notShard>>

ShardNext ==
  \/ MergeCreate
  \/ \E t \in Workers : MergeClose(t)
  \/ Transpose
  \/ RoundOpen
  \/ \E p \in Workers : Reimport(p)
  \/ RoundUnlink

(***************************************************************************)
(* One run of main (3574-3969) seen from outside: the command line, the    *)
(* indices, the files under SORT_PATH and the result file, the exit.       *)
(*   cmd      the command line and what the indices hold                   *)
(*   mainpc   where main is: pc, and the round (u, i) of pair_sort_search  *)
(*   files    the files of the run that exist: shard files <<"N"|"C", x>>, *)
(*            <<"uniq", p>>, <<"algn", p>>, <<"uniqS", p>> (output of      *)
(*            LAsort) and <<"out", 0>>, the file ALGN_NAME.las             *)
(*   tarm[p]  search thread p: nlive and whether it runs                   *)
(*   las[p]   the file <<"uniq", p>>: the header fields and the number of  *)
(*            alignment records behind them                                *)
(*   prog     exit status (-1 while running), the diagnostic on stderr,    *)
(*            whether an index was opened and whether a worker was started *)
(***************************************************************************)
Commands ==
  [nsrc : {1, 2, 3}, f : {-1, 2}, erange : BOOLEAN, path : BOOLEAN,
   found : BOOLEAN, nsqrt2 : {NTHREADS, NTHREADS + 1}, freq1 : {1, 2},
   freq2 : {1, 2}, kmer2 : {KMER, KMER + 2}]

UniqFiles  == {<<"uniq", p>> : p \in Workers}
AlgnFiles  == {<<"algn", p>> : p \in Workers}
UniqSFiles == {<<"uniqS", p>> : p \in Workers}
OutFile    == <<"out", 0>>

\* nels is written to the header before anything was assigned to it (3428)
Indeterminate == {0, 77}

\* the records each align_contigs call of one search_seeds run writes
CallOutputs == {<<>>, <<1>>, <<1, 1>>}

\* pair->nlive after the calls (3296, 3226), taking the last call alone
PairLiveLast(out) == IF out = <<>> THEN 0 ELSE out[Len(out)]
\* pair->nlive after the calls: set to 0 (3296), then += nliv in each (3226)
PairLive(out) ==
  LET RECURSIVE Go(_, _)
      Go(k, nlive) == IF k > Len(out) THEN nlive ELSE Go(k + 1, nlive + out[k])
  IN  Go(1, 0)
\* the records the calls append to ofile: one per turn of 3206-3215
RECURSIVE Written(_)
Written(out) == IF out = <<>> THEN 0 ELSE out[1] + Written(Tail(out))

\* the option is missing or the sources are not two (3637)
UsageErrorOnSources(c) == c.nsrc # 2
UsageError(c) == c.nsrc # 2 \/ c.f < 0

\* the tests on the opened indices, in the order of the code, and the
\* diagnostic of the first that fails ("" for none)
IndexCheckNoKmer(c) ==
  IF ~c.found THEN "index"
  ELSE IF c.nsqrt2 # NTHREADS THEN "threads"
  ELSE IF c.freq1 < c.f \/ c.freq2 < c.f THEN "cutoff"
  ELSE ""
IndexCheck(c) ==
  IF ~c.found THEN "index"
  ELSE IF c.nsqrt2 # NTHREADS THEN "threads"
  ELSE IF c.freq1 < c.f \/ c.freq2 < c.f THEN "cutoff"
  ELSE IF c.kmer2 # KMER THEN "kmer"
  ELSE ""

Running == [status |-> -1, diag |-> "", opened |-> FALSE, started |-> FALSE]
Exit(st, msg) == prog' = [prog EXCEPT !.status = st, !.diag = msg]

MainInit ==
  /\ cmd \in Commands
  /\ mainpc = [pc |-> "options", u |-> 0, i |-> 0]
  /\ files = {}
  /\ tarm = [p \in Workers |-> [nlive |-> 0, st |-> "idle"]]
  /\ las = [p \in Workers |-> [nels |-> 0, tspace |-> 0, recs |-> 0]]
  /\ prog = Running

\* "Process options": a -e value out of range ends the run in the loop,
\* then the usage test
ProcessOptions ==
  /\ mainpc.pc = "options"
  /\ \/ /\ cmd.erange
        /\ Exit(1, "erange")
        /\ mainpc' = [mainpc EXCEPT !.pc = "exit"]
     \/ /\ ~cmd.erange /\ UsageError(cmd)
        /\ Exit(1, "usage")
        /\ mainpc' = [mainpc EXCEPT !.pc = "exit"]
     \/ /\ ~cmd.erange /\ ~UsageError(cmd)
        /\ mainpc' = [mainpc EXCEPT !.pc = "path"]
        /\ UNCHANGED prog
  /\ UNCHANGED <<cmd, files, tarm, las, notMain>>

\* SORT_PATH is made a full path and opened as a directory
SortPath ==
  /\ mainpc.pc = "path"
  /\ \/ /\ ~cmd.path
        /\ Exit(1, "path")
        /\ mainpc' = [mainpc EXCEPT !.pc = "exit"]
     \/ /\ cmd.path
        /\ mainpc' = [mainpc EXCEPT !.pc = "open"]
        /\ UNCHANGED prog
  /\ UNCHANGED <<cmd, files, tarm, las, notMain>>

\* the indices are opened and tested against each other and against -f
OpenIndices ==
  /\ mainpc.pc = "open"
  /\ \E msg \in {IndexCheck(cmd)} :
       \/ /\ msg # ""
          /\ prog' = [prog EXCEPT !.status = 1, !.diag = msg,
                                  !.opened = cmd.found]
          /\ mainpc' = [mainpc EXCEPT !.pc = "exit"]
       \/ /\ msg = ""
          /\ prog' = [prog EXCEPT !.opened = TRUE]
          /\ mainpc' = [mainpc EXCEPT !.pc = "merge"]
  /\ UNCHANGED <<cmd, files, tarm, las, notMain>>

\* adaptamer_merge: the shard files are created, the workers run and are
\* joined
AdaptamerMerge ==
  /\ mainpc.pc = "merge"
  /\ files' = files \cup Names
  /\ prog' = [prog EXCEPT !.started = TRUE]
  /\ mainpc' = [mainpc EXCEPT !.pc = "setup"]
  /\ UNCHANGED <<cmd, tarm, las, notMain>>

\* pair_sort_search before its rounds: for every thread nlive = 0, the
\* output file with a header of nels and 100, and the work file
OpenOutputs ==
  /\ mainpc.pc = "setup"
  /\ \E nels \in Indeterminate :
       las' = [p \in Workers |-> [nels |-> nels, tspace |-> TSPACE, recs |-> 0]]
  /\ tarm' = [p \in Workers |-> [nlive |-> 0, st |-> "idle"]]
  /\ files' = files \cup UniqFiles \cup AlgnFiles
  /\ mainpc' = [pc |-> "round", u |-> 0, i |-> 0]
  /\ UNCHANGED <<cmd, prog, notMain>>

\* round (u, i) up to the search: the shard files of the round are read
\* and unlinked, the array is sorted into nused ranges, and the search
\* threads of these ranges are started
RoundSort ==
  /\ mainpc.pc = "round"
  /\ files' = files \ {<<UFams[mainpc.u + 1], Transposed(mainpc.i * NTHREADS + p)>> :
                          p \in Workers}
  /\ \E nused \in 1..NTHREADS :
       tarm' = [p \in Workers |->
                  [tarm[p] EXCEPT !.st = IF p < nused THEN "run" ELSE "joined"]]
  /\ mainpc' = [mainpc EXCEPT !.pc = "search"]
  /\ UNCHANGED <<cmd, las, prog, notMain>>

\* search_seeds of thread p: each call of align_contigs appends its records
\* to the output file of the thread; the count goes to nlive at the end
SearchSeeds(p) ==
  /\ mainpc.pc = "search" /\ tarm[p].st = "run"
  /\ \E out \in CallOutputs :
       /\ las' = [las EXCEPT ![p].recs = @ + Written(out)]
       /\ tarm' = [tarm EXCEPT ![p].nlive = @ + PairLive(out), ![p].st = "joined"]
  /\ UNCHANGED <<cmd, mainpc, files, prog, notMain>>

\* the search threads are joined: the next round
RoundJoin ==
  /\ mainpc.pc = "search" /\ \A p \in Workers : tarm[p].st = "joined"
  /\ tarm' = [p \in Workers |-> [tarm[p] EXCEPT !.st = "idle"]]
  /\ mainpc' = IF mainpc.i + 1 < NPARTS
               THEN [mainpc EXCEPT !.pc = "round", !.i = mainpc.i + 1]
               ELSE IF mainpc.u = 0 THEN [pc |-> "round", u |-> 1, i |-> 0]
               ELSE [mainpc EXCEPT !.pc = "close"]
  /\ UNCHANGED <<cmd, files, las, prog, notMain>>

\* after the rounds: the work files are closed, nlive is written over the
\* first header field of each output file
CloseOutputs ==
  /\ mainpc.pc = "close"
  /\ las' = [p \in Workers |-> [las[p] EXCEPT !.nels = tarm[p].nlive]]
  /\ mainpc' = [mainpc EXCEPT !.pc = "lasort"]
  /\ UNCHANGED <<cmd, files, tarm, prog, notMain>>

\* the files named by the patterns of the rm of a failed command
RemovedOnFailure == UniqFiles \cup UniqSFiles

\* "LAsort -a SORT_PATH/ALGN_UNIQ.*.las": a sorted file beside each input,
\* or on failure beside some; then the message, the rm and exit 1
LAsort ==
  /\ mainpc.pc = "lasort"
  /\ \/ /\ files' = files \cup UniqSFiles
        /\ mainpc' = [mainpc EXCEPT !.pc = "lamerge"]
        /\ UNCHANGED prog
     \/ /\ \E made \in SUBSET UniqSFiles :
             files' = (files \cup made) \ RemovedOnFailure
        /\ Exit(1, "lasort")
        /\ mainpc' = [mainpc EXCEPT !.pc = "exit"]
  /\ UNCHANGED <<cmd, tarm, las, notMain>>

\* "LAmerge -a ALGN_NAME.las SORT_PATH/ALGN_UNIQ.*.S.las": the result file,
\* or on failure possibly a part of it; then the message, the rm and exit 1
LAmerge ==
  /\ mainpc.pc = "lamerge"
  /\ \/ /\ files' = files \cup {OutFile}
        /\ mainpc' = [mainpc EXCEPT !.pc = "remove"]
        /\ UNCHANGED prog
     \/ /\ \E made \in SUBSET {OutFile} :
             files' = (files \cup made) \ RemovedOnFailure
        /\ Exit(1, "lamerge")
        /\ mainpc' = [mainpc EXCEPT !.pc = "exit"]
  /\ UNCHANGED <<cmd, tarm, las, notMain>>

\* the rm of the work files, the output files and the sorted files; when
\* it fails the message and exit 1, some of the files still there
RemoveIntermediates ==
  /\ mainpc.pc = "remove"
  /\ \/ /\ files' = files \ (AlgnFiles \cup UniqFiles \cup UniqSFiles)
        /\ Exit(0, "")
     \/ /\ \E kept \in {AlgnFiles, UniqFiles \cup UniqSFiles} :
             files' = files \ ((AlgnFiles \cup UniqFiles \cup UniqSFiles) \ kept)
        /\ Exit(1, "remove")
  /\ mainpc' = [mainpc EXCEPT !.pc = "exit"]
  /\ UNCHANGED <<cmd, tarm, las, notMain>>

MainNext ==
  \/ ProcessOptions
  \/ SortPath
  \/ OpenIndices
  \/ AdaptamerMerge
  \/ OpenOutputs
  \/ RoundSort
  \/ \E p \in Workers : SearchSeeds(p)
  \/ RoundJoin
  \/ CloseOutputs
  \/ LAsort
  \/ LAmerge
  \/ RemoveIntermediates

(***************************************************************************)
(* The split computed by main for one database (3797-3825).                *)
(*   dlens   the lengths of the a-contigs in sort order                    *)
(*           (DB1->reads[Perm1[x]].rlen), zero lengths included            *)
(*   dpart   <<>> before the block, then NPARTS, IDBsplit and Select as    *)
(*           the block leaves them                                         *)
(***************************************************************************)
MaxConts == 5       \* most a-contigs of the database
MaxRlen  == 2       \* longest a-contig

SplitInit ==
  /\ \E n \in 1..MaxConts : dlens \in [1..n -> 0..MaxRlen]
  /\ dpart = <<>>

\* "Compute DB split into NTHREADS parts"
ComputeSplit ==
  /\ dpart = <<>>
  /\ dpart' = Partition(dlens)
  /\ UNCHANGED <<dlens, notSplit>>

SplitNext == ComputeSplit

(***************************************************************************)
(* read_1aln and read_1aln_block (455-666): the alignments of a .1aln file *)
(* are read in NTHREADS blocks into one array and the blocks are then      *)
(* collected at the front of the array.                                    *)
(*   ovls      the alignments of the file, in file order                   *)
(*   rthreads  NTHREADS of this run (option -T)                            *)
(*   parm[p]   the packet of thread p: beg, end, nseg, whether it is done  *)
(*   segments  the array, as bytes: <<k, i>> is byte i of the segment of   *)
(*             alignment k, <<-1, j>> a byte malloc left there             *)
(*   nSegment  the number of segments, rpc where read_1aln is              *)
(***************************************************************************)
MINALEN   == 50
MaxOvl    == 3      \* most alignments of the file
MaxThr    == 2      \* most threads
SegBytes  == 2      \* sizeof(Segment), scaled down

\* an alignment: the lengths of its a- and b-interval and its diffs
AlnPool == {[alen |-> 100, blen |-> 100, diffs |-> 10],
            [alen |-> 40,  blen |-> 100, diffs |-> 0],
            [alen |-> 100, blen |-> 100, diffs |-> 80]}

\* the filters left out: every alignment is kept
PassesAlways(o) == TRUE
\* the alignment passes the filters on length and identity (502-508):
\* 2.*iid / blocksum < MINAIDNT with MINAIDNT = 0.7
PassesFilters(o) ==
  /\ ~(o.alen < MINALEN \/ o.blen < MINALEN)
  /\ ~(20 * (((o.alen + o.blen) - o.diffs) \div 2) < 7 * (o.alen + o.blen))

\* what malloc may have left in a byte of the array
MallocBytes == {<<-1, 0>>, <<0, 0>>}

\* parm[p].beg and parm[p].end (631-638)
BlockBeg(p) == (p * Len(ovls)) \div rthreads
BlockEnd(p) == IF p = rthreads - 1 THEN Len(ovls) ELSE BlockBeg(p + 1)

ReadInit ==
  /\ ovls \in UNION {[1..n -> AlnPool] : n \in 1..MaxOvl}
  /\ rthreads \in 1..MaxThr
  /\ parm = [p \in 0..(rthreads - 1) |->
               [beg |-> BlockBeg(p), end |-> BlockEnd(p), nseg |-> 0, done |-> FALSE]]
  /\ segments \in [0..(Len(ovls) * SegBytes - 1) -> MallocBytes]
  /\ nSegment = 0
  /\ rpc = "read"

RECURSIVE ReadLoop(_, _, _, _, _)
\* for (i = beg; i < end; i++): the segments kept are written one after
\* the other from segs on (468-529)
ReadLoop(mem, i, end, segs, nseg) ==
  IF i >= end THEN [mem |-> mem, nseg |-> nseg]
  ELSE IF ~PassesFilters(ovls[i + 1]) THEN ReadLoop(mem, i + 1, end, segs, nseg)
  ELSE ReadLoop([x \in DOMAIN mem |->
                   IF segs * SegBytes <= x /\ x < (segs + 1) * SegBytes
                   THEN <<i, x - segs * SegBytes>> ELSE mem[x]],
                i + 1, end, segs + 1, nseg + 1)

\* read_1aln_block of thread p
ReadBlock(p) ==
  /\ rpc = "read" /\ ~parm[p].done
  /\ \E r \in {ReadLoop(segments, parm[p].beg, parm[p].end, parm[p].beg, 0)} :
       /\ segments' = r.mem
       /\ parm' = [parm EXCEPT ![p].nseg = r.nseg, ![p].done = TRUE]
  /\ UNCHANGED <<ovls, rthreads, nSegment, rpc, notRead>>

\* memmove(dest, src, n), addresses and n in bytes
Memmove(mem, dest, src, n) ==
  [x \in DOMAIN mem |->
     IF dest <= x /\ x < dest + n THEN mem[src + (x - dest)] ELSE mem[x]]

RECURSIVE CollectLoop(_, _, _, _)
\* for (p = 1; p < NTHREADS; p++) ... (653-658)
CollectLoop(p, mem, nseg, totSeg) ==
  IF p >= rthreads THEN [mem |-> mem, nseg |-> nseg]
  ELSE CollectLoop(p + 1,
         IF nseg < totSeg
         THEN Memmove(mem, parm[p].beg * SegBytes, nseg * SegBytes, parm[p].nseg)
         ELSE mem,
         nseg + parm[p].nseg,
         totSeg + (parm[p].end - parm[p].beg))

\* "collect results from different part", once the threads are joined
Collect ==
  /\ rpc = "read" /\ \A p \in DOMAIN parm : parm[p].done
  /\ \E r \in {CollectLoop(1, segments, parm[0].nseg, parm[0].end - parm[0].beg)} :
       /\ segments' = r.mem
       /\ nSegment' = r.nseg
  /\ rpc' = "done"
  /\ UNCHANGED <<ovls, rthreads, parm, notRead>>

ReadNext == (\E p \in DOMAIN parm : ReadBlock(p)) \/ Collect

(***************************************************************************)
(* DICT (105-245): the dictionary of sequence names, an open-addressing    *)
(* hash table with double hashing that doubles when 30% full.              *)
(*   dict     the fields of the DICT: names, table, max, dim, size, new    *)
(*   added    the names added so far, in the order of their first dictAdd  *)
(*   dcall    the last call: op, its argument, what it returned, *index     *)
(*            (-1 when not written), and hung when it never returns        *)
(* A string is the sequence of its characters; the tables start at         *)
(* 2^InitDim entries.                                                      *)
(***************************************************************************)
InitDim  == 3      \* dim of a new dictionary, scaled down
MaxNames == 5      \* most names added
WordBytes == 8     \* sizeof(uint64)

\* the empty string and strings of one or two characters: "a" "b" "h" "i"
\* "x" "ba"
NamePool == {<<>>, <<97>>, <<98>>, <<104>>, <<105>>, <<120>>, <<98, 97>>}
\* a NULL entry of names
NoName == <<0>>

RECURSIVE Xor(_, _)
\* a ^ b
Xor(a, b) ==
  IF a = 0 THEN b
  ELSE IF b = 0 THEN a
  ELSE ((a + b) % 2) + 2 * Xor(a \div 2, b \div 2)
RECURSIVE Or(_, _)
\* a | b
Or(a, b) ==
  IF a = 0 THEN b
  ELSE IF b = 0 THEN a
  ELSE (IF a % 2 = 1 \/ b % 2 = 1 THEN 1 ELSE 0) + 2 * Or(a \div 2, b \div 2)
\* x >> k and x << k of a uint64; the values of the strings of NamePool
\* stay below 2^31, so that no bit leaves the word on the left
ShiftRight(x, k) == IF k >= 31 THEN 0 ELSE x \div (2 ^ k)
ShiftLeft(x, k)  == x * (2 ^ k)

RECURSIVE HashChars(_, _, _)
\* while (*cp) x = (*cp++) ^ ((x >> leftover) | (x << rotate))
HashChars(cp, x, rotate) ==
  IF cp = <<>> THEN x
  ELSE HashChars(Tail(cp),
                 Xor(Head(cp), Or(ShiftRight(x, 8 * WordBytes - rotate),
                                  ShiftLeft(x, rotate))),
                 rotate)
RECURSIVE HashFold(_, _, _, _)
\* for (j = x, i = n; i < sizeof(uint64); i += n) j ^= (x >> i)
HashFold(j, x, i, n) ==
  IF i < WordBytes THEN HashFold(Xor(j, ShiftRight(x, i)), x, i + n, n) ELSE j

\* hashString without j |= 1 for the second hash
hashStringAnyStep(cp, n, isDiff) ==
  LET x == HashChars(cp, 0, IF isDiff THEN 21 ELSE 13)
  IN  HashFold(x, x, n, n) % (2 ^ n)
hashString(cp, n, isDiff) ==
  LET x == HashChars(cp, 0, IF isDiff THEN 21 ELSE 13)
      j == HashFold(x, x, n, n) % (2 ^ n)
  IN  IF isDiff THEN Or(j, 1) ELSE j

\* dictCreate with a size not above the first table
dictCreate ==
  [names |-> [i \in 0..(2 ^ InitDim \div 2 - 1) |-> NoName],
   table |-> [x \in 0..(2 ^ InitDim - 1) |-> 0],
   max |-> 0, dim |-> InitDim, size |-> 2 ^ InitDim, new |-> 0]

RECURSIVE FindProbe(_, _, _, _, _)
\* the while (1) of dictFind from slot x with step dd; after size turns
\* the slots repeat, and the loop does not end
FindProbe(d, s, x, dd, k) ==
  IF k > d.size THEN [ret |-> 0, index |-> -1, new |-> d.new, hung |-> TRUE]
  ELSE LET y == (x + dd) % (2 ^ d.dim)
           i == d.table[y]
       IN  IF i = 0 THEN [ret |-> 0, index |-> -1, new |-> y, hung |-> FALSE]
           ELSE IF s = d.names[i]
                THEN [ret |-> 1, index |-> i - 1, new |-> d.new, hung |-> FALSE]
                ELSE FindProbe(d, s, y, dd, k + 1)

\* dictFind(dict, s, &index): what it returns, *index, and dict->new
dictFind(d, s) ==
  LET x == hashString(s, d.dim, FALSE)
      i == d.table[x]
  IN  IF i = 0 THEN [ret |-> 0, index |-> -1, new |-> x, hung |-> FALSE]
      ELSE IF s = d.names[i]
           THEN [ret |-> 1, index |-> i - 1, new |-> d.new, hung |-> FALSE]
           ELSE FindProbe(d, s, x, hashString(s, d.dim, TRUE), 1)

RECURSIVE PlaceProbe(_, _, _, _, _, _)
\* the while (1) of the remap: the first free slot for entry i
PlaceProbe(tab, dim, i, x, dd, k) ==
  IF k > 2 ^ dim THEN [table |-> tab, hung |-> TRUE]
  ELSE LET y == (x + dd) % (2 ^ dim)
       IN  IF tab[y] = 0 THEN [table |-> [tab EXCEPT ![y] = i], hung |-> FALSE]
           ELSE PlaceProbe(tab, dim, i, y, dd, k + 1)

RECURSIVE Rehash(_, _, _, _, _)
\* for (i = 1; i <= dict->max; i++) of the remap into newTable
Rehash(tab, names, max, dim, i) ==
  IF i > max THEN [table |-> tab, hung |-> FALSE]
  ELSE LET s == names[i]
           x == hashString(s, dim, FALSE)
           r == IF tab[x] = 0 THEN [table |-> [tab EXCEPT ![x] = i], hung |-> FALSE]
                ELSE PlaceProbe(tab, dim, i, x, hashString(s, dim, TRUE), 1)
       IN  IF r.hung THEN r ELSE Rehash(r.table, names, max, dim, i + 1)

\* remap(old, oldSize, newSize) of the names: a zeroed array with the
\* first entries of the old one
remap(old, oldLen, newLen) ==
  [i \in 0..(newLen - 1) |-> IF i < oldLen /\ i \in DOMAIN old THEN old[i] ELSE NoName]

\* the test for doubling: dict->max > 0.3 * dict->size
TableFull(max, size) == 10 * max > 3 * size

\* dictAdd after dictFind has not found s: the entry, then the doubling
AddNew(d, s, slot) ==
  LET i  == d.max + 1
      d1 == [d EXCEPT !.new = slot, !.max = i, !.table[slot] = i, !.names[i] = s]
  IN  IF ~TableFull(d1.max, d1.size) THEN [dict |-> d1, hung |-> FALSE]
      ELSE LET names == remap(d1.names, d1.max + 1, d1.size)
               r == Rehash([x \in 0..(2 * d1.size - 1) |-> 0], names, d1.max,
                           d1.dim + 1, 1)
           IN  [dict |-> [d1 EXCEPT !.dim = d1.dim + 1, !.size = 2 * d1.size,
                                    !.names = names, !.table = r.table],
                hung |-> r.hung]

DictInit ==
  /\ dict = dictCreate
  /\ added = <<>>
  /\ dcall = [op |-> "create", s |-> <<>>, fresh |-> FALSE, ret |-> 0, index |-> -1,
              hung |-> FALSE]

\* s was passed to a dictAdd before
IsAdded(s) == \E k \in 1..Len(added) : added[k] = s

\* dictAdd(dict, s, &index)
DictAdd(s) ==
  /\ ~dcall.hung /\ (IsAdded(s) \/ Len(added) < MaxNames)
  /\ added' = IF IsAdded(s) THEN added ELSE Append(added, s)
  /\ \E f \in {dictFind(dict, s)} :
       \/ /\ f.hung
          /\ dcall' = [op |-> "add", s |-> s, fresh |-> ~IsAdded(s), ret |-> 0,
                       index |-> -1, hung |-> TRUE]
          /\ UNCHANGED dict
       \/ /\ ~f.hung /\ f.ret = 1
          /\ dcall' = [op |-> "add", s |-> s, fresh |-> ~IsAdded(s), ret |-> 0,
                       index |-> f.index, hung |-> FALSE]
          /\ dict' = [dict EXCEPT !.new = f.new]
       \/ /\ ~f.hung /\ f.ret = 0
          /\ \E r \in {AddNew(dict, s, f.new)} :
               /\ dict' = r.dict
               /\ dcall' = [op |-> "add", s |-> s, fresh |-> ~IsAdded(s), ret |-> 1,
                            index |-> r.dict.max - 1, hung |-> r.hung]
  /\ UNCHANGED notDict

\* dictFind(dict, s, &index) called from outside
DictFind(s) ==
  /\ ~dcall.hung
  /\ \E f \in {dictFind(dict, s)} :
       /\ dict' = [dict EXCEPT !.new = f.new]
       /\ dcall' = [op |-> "find", s |-> s, fresh |-> ~IsAdded(s), ret |-> f.ret,
                    index |-> f.index, hung |-> f.hung]
  /\ UNCHANGED <<added, notDict>>

\* dictName(dict, i)
dictName(d, i) == d.names[i + 1]

DictNext == \E s \in NamePool : DictAdd(s) \/ DictFind(s)

MergeIdle == /\ T1 = <<>> /\ T2 = <<>> /\ FREQ = 0 /\ mw = <<>>
             /\ units = <<>> /\ buck = <<>> /\ mlast = <<>> /\ seen = <<>>
SortIdle  == /\ sfile = <<>> /\ scomp = 0 /\ spass = 0 /\ stale = <<>>
             /\ rp = <<>> /\ sbuck = <<>> /\ sarr = <<>> /\ sphase = "idle"
             /\ scalls = <<>>

ChainIdle == /\ CHAIN_BREAK = 0 /\ CHAIN_MIN = 0 /\ ALIGN_MIN = 0 /\ crecs = <<>>
             /\ ccomp = 0 /\ cend = 0 /\ cw = <<>> /\ calls = <<>> /\ clast = <<>>

FilterIdle == /\ oblock = <<>> /\ perm = <<>> /\ eflags = <<>> /\ fpc = "idle"
              /\ fj = 0 /\ fk = 0 /\ ofile = <<>> /\ fcmp = <<>>

ShardIdle == uname = <<>> /\ ufile = <<>> /\ upc = <<>> /\ uthr = <<>>

MainIdle == /\ cmd = <<>> /\ mainpc = <<>> /\ files = {} /\ tarm = <<>>
            /\ las = <<>> /\ prog = <<>>

SplitIdle == dlens = <<>> /\ dpart = <<>>

ReadIdle == ovls = <<>> /\ rthreads = 0 /\ parm = <<>> /\ segments = <<>> /\ nSegment = 0 /\ rpc = "idle"

DictIdle == dict = <<>> /\ added = <<>> /\ dcall = <<>>

InitMerge  == MergeInit /\ SortIdle /\ ChainIdle /\ FilterIdle /\ ShardIdle /\ MainIdle /\ SplitIdle /\ ReadIdle /\ DictIdle
InitSort   == SortInit /\ MergeIdle /\ ChainIdle /\ FilterIdle /\ ShardIdle /\ MainIdle /\ SplitIdle /\ ReadIdle /\ DictIdle
InitChain  == ChainInit /\ MergeIdle /\ SortIdle /\ FilterIdle /\ ShardIdle /\ MainIdle /\ SplitIdle /\ ReadIdle /\ DictIdle
InitFilter == FilterInit /\ MergeIdle /\ SortIdle /\ ChainIdle /\ ShardIdle /\ MainIdle /\ SplitIdle /\ ReadIdle /\ DictIdle
InitShard  == ShardInit /\ MergeIdle /\ SortIdle /\ ChainIdle /\ FilterIdle /\ MainIdle /\ SplitIdle /\ ReadIdle /\ DictIdle
InitMain   == MainInit /\ MergeIdle /\ SortIdle /\ ChainIdle /\ FilterIdle /\ ShardIdle /\ SplitIdle /\ ReadIdle /\ DictIdle

InitSplit == SplitInit /\ MergeIdle /\ SortIdle /\ ChainIdle /\ FilterIdle /\ ShardIdle /\ MainIdle /\ ReadIdle /\ DictIdle

InitRead == ReadInit /\ MergeIdle /\ SortIdle /\ ChainIdle /\ FilterIdle /\ ShardIdle /\ MainIdle /\ SplitIdle /\ DictIdle

InitDict == DictInit /\ MergeIdle /\ SortIdle /\ ChainIdle /\ FilterIdle /\ ShardIdle /\ MainIdle /\ SplitIdle /\ ReadIdle

SpecMerge  == InitMerge /\ [][MergeNext]_vars
SpecSort   == InitSort /\ [][SortNext]_vars
SpecChain  == InitChain /\ [][ChainNext]_vars
SpecFilter == InitFilter /\ [][FilterNext]_vars
SpecShard  == InitShard /\ [][ShardNext]_vars
SpecMain   == InitMain /\ [][MainNext]_vars
SpecSplit == InitSplit /\ [][SplitNext]_vars
SpecRead == InitRead /\ [][ReadNext]_vars
SpecDict == InitDict /\ [][DictNext]_vars
\* align_contigs is run by its thread until it returns; one setting of the
\* thresholds on coverage and alignment length
InitChainLive == InitChain /\ CHAIN_MIN = 13 /\ ALIGN_MIN = 14
SpecChainLive == InitChainLive /\ [][ChainNext]_vars /\ WF_vars(ChainNext)

(***************************************************************************)
(* What the merge is to compute, stated on the two tables alone.           *)
(***************************************************************************)
\* k-mer entries e and f agree on their first L bases (L >= 12)
Shares(e, f, L) == /\ e.pre = f.pre
                   /\ \A i \in 1..(L - 12) : e.suf[i] = f.suf[i]
\* the entries of T2 (1-based) that agree with e on L bases
MatchIdx(e, L) == {j \in 1..Len(T2) : Shares(e, T2[j], L)}
\* the number of positions these entries have
MatchCount(e, L) ==
  SumTo([j \in 1..Len(T2) |-> IF j \in MatchIdx(e, L) THEN T2[j].cnt ELSE 0],
        1, Len(T2))
\* the most bases e shares with any entry of T2, 0 when fewer than 12
LongestMatch(e) ==
  IF MatchIdx(e, 12) = {} THEN 0
  ELSE CHOOSE L \in 12..KMER :
         /\ MatchIdx(e, L) # {}
         /\ \A M \in (L + 1)..KMER : MatchIdx(e, M) = {}
\* the indices in a post list of the positions of entry i (0-based) of T
PostsOf(T, i) == PostBase(T, i)..(PostBase(T, i) + CntAt(T, i) - 1)
\* every pairing of a position of T1 entry i with a position of a T2 entry
\* that agrees with it on L bases
PairsOf(i, L) ==
  {[lcp |-> L, a |-> a, b |-> b] :
     a \in PostsOf(T1, i),
     b \in UNION {PostsOf(T2, j - 1) : j \in MatchIdx(T1[i + 1], L)}}
SeqRange(q) == {q[k] : k \in 1..Len(q)}

RECURSIVE Concat(_, _)
Concat(f, S) ==
  IF S = {} THEN <<>>
  ELSE LET x == CHOOSE y \in S : TRUE IN f[x] \o Concat(f, S \ {x})
UnitKeys == Workers \X Families \X (0..(NPARTS - 1))
AllRecords ==
  Concat([k \in UnitKeys |-> units[k[1]][k[2]][k[3]]], UnitKeys)
\* the T1 entries worker t is given: [t*nsqrt, (t+1)*nsqrt) in shards
RangeOf(t) == MergeStart(t).t1..(MergeStart(t).tend - 1)

DiagOf(sd) == IF scomp = 1 THEN sd.ipost + sd.jpost
              ELSE sd.ipost - sd.jpost + BLens[sd.jcont + 1]
BucketOf(sd) == DiagOf(sd) \div BUCK_WIDTH
\* the seeds of a-contig j in the shard files
SeedsOf(j) == {sd \in UNION {SeqRange(sfile[q]) : q \in Threads} : sd.icont = j}
PanelSlots(j) == PanelLo(j)..(PanelHi(j) - 1)

\* C4 as amended: after the sort the panel of each a-contig holds the seeds
\* of that a-contig, each with its diagonal split into bucket and remainder,
\* in non-decreasing order of b-contig, then diagonal bucket (diag / 64),
\* then a-post.
SortOrdersByBucketThenApost ==
  sphase = "sorted" =>
    \A j \in PassConts :
      /\ {sarr[x].of : x \in PanelSlots(j)} = SeedsOf(j)
      /\ Cardinality(PanelSlots(j)) = Cardinality(SeedsOf(j))
      /\ \A x \in PanelSlots(j) :
           /\ sarr[x].pdiag = BucketOf(sarr[x].of)
           /\ sarr[x].pdiag * BUCK_WIDTH + sarr[x].drem = DiagOf(sarr[x].of)
      /\ \A x \in PanelSlots(j) : x + 1 \in PanelSlots(j) =>
           LET r == sarr[x]
               t == sarr[x + 1]
           IN  \/ r.of.jcont < t.of.jcont
               \/ r.of.jcont = t.of.jcont /\ BucketOf(r.of) < BucketOf(t.of)
               \/ /\ r.of.jcont = t.of.jcont /\ BucketOf(r.of) = BucketOf(t.of)
                  /\ r.ipost <= t.ipost

\* C4 as stated: after the sort, within an a-contig, the full diagonal
\* (bucket * 64 + remainder) is non-decreasing and the a-post is
\* non-decreasing among equal diagonals.
SortOrdersByFullDiag ==
  sphase = "sorted" =>
    \A j \in PassConts :
      \A x \in PanelSlots(j) : x + 1 \in PanelSlots(j) =>
        LET dr == sarr[x].pdiag * BUCK_WIDTH + sarr[x].drem
            dt == sarr[x + 1].pdiag * BUCK_WIDTH + sarr[x + 1].drem
        IN  dr < dt \/ (dr = dt /\ sarr[x].ipost <= sarr[x + 1].ipost)

\* a sorted panel with seeds of both threads, of two b-contigs and of two
\* buckets, and two neighbours of one bucket in a-post order
SortedPanelOfBothThreads ==
  /\ sphase = "sorted"
  /\ \A q \in Threads : Len(sfile[q]) >= 1
  /\ \E j \in PassConts :
       /\ Cardinality(PanelSlots(j)) >= 3
       /\ \E x, y \in PanelSlots(j) : sarr[x].of.jcont # sarr[y].of.jcont
       /\ \E x, y \in PanelSlots(j) : sarr[x].pdiag # sarr[y].pdiag
       /\ \E x \in PanelSlots(j) :
            /\ x + 1 \in PanelSlots(j)
            /\ sarr[x].of.jcont = sarr[x + 1].of.jcont
            /\ sarr[x].pdiag = sarr[x + 1].pdiag
            /\ sarr[x].ipost < sarr[x + 1].ipost

\* C5 as stated: a thread that re-imports a shard file of n >= 0 seed
\* records writes exactly n sort records and increments buck[] n times; for
\* an empty file it writes nothing.
ReimportOneRecordPerSeed ==
  \A q \in DOMAIN rp :
    /\ rp[q].nrec <= Len(sfile[q])
    /\ rp[q].pc = "done" => rp[q].nrec = Len(sfile[q])

\* the part of C5 that holds: a file of n >= 1 records
ReimportOneRecordPerSeedOfNonEmpty ==
  \A q \in DOMAIN rp : Len(sfile[q]) >= 1 =>
    /\ rp[q].nrec <= Len(sfile[q])
    /\ rp[q].pc \in {"start", "loop", "done"}
    /\ rp[q].pc = "done" => rp[q].nrec = Len(sfile[q])


(***************************************************************************)
(* The chain search of align_contigs                                       *)
(***************************************************************************)

\* the seeds of a chain, as the records they were taken from
ChainSeeds(chain) == {chain[k] : k \in 1..Len(chain)}
\* the furthest a-position a seed of the chain reaches
ChainReach(chain) == LET R == {IpostAt(i) + LcpAt(i) : i \in ChainSeeds(chain)}
                     IN  CHOOSE r \in R : \A x \in R : x <= r
\* the a-post of the seed that joined the chain last
LastApost(chain) == IpostAt(chain[Len(chain)])
\* the a-positions the seeds of the chain cover
ACover(chain) == UNION {IpostAt(i)..(IpostAt(i) + LcpAt(i) - 1) : i \in ChainSeeds(chain)}
\* a seed of the window has met a running chain
SeedMetChain == clast.kind \in {"extend", "break"} /\ clast.chain # <<>>

\* C8 as the code has it: the next seed extends the running chain exactly
\* when its a-post is less than CHAIN_BREAK beyond the furthest a-position
\* (a-post + lcp) any seed of the chain reaches; at exactly CHAIN_BREAK
\* beyond it the chain ends.
ChainExtendsWithinBreakOfReach ==
  SeedMetChain =>
    (clast.kind = "extend" <=> clast.npost < ChainReach(clast.chain) + CHAIN_BREAK)

\* C8 as stated: the next seed extends the chain exactly when its a-post is
\* at most CHAIN_BREAK beyond the a-post of the previous seed of the chain.
ChainExtendsWithinBreakOfApost ==
  SeedMetChain =>
    (clast.kind = "extend" <=> clast.npost - LastApost(clast.chain) <= CHAIN_BREAK)

\* a chain ends at a seed exactly CHAIN_BREAK beyond its reach
ChainEndsAtBreakBeyondReach ==
  /\ SeedMetChain
  /\ clast.kind = "break"
  /\ clast.npost = ChainReach(clast.chain) + CHAIN_BREAK

\* a chain is extended by a seed more than CHAIN_BREAK beyond the last a-post
ChainExtendedBeyondBreakOfApost ==
  /\ SeedMetChain
  /\ clast.kind = "extend"
  /\ clast.npost - LastApost(clast.chain) > CHAIN_BREAK

\* C9: every call of the aligner is for a chain with cov >= CHAIN_MIN and
\* jcov >= CHAIN_MIN, there is no alignment without a call, and a contig
\* pair whose only seed has lcp < CHAIN_MIN has no call and no alignment.
AlignerOnlyForCoveredChains ==
  /\ \A k \in 1..Len(calls) : calls[k].cov >= CHAIN_MIN /\ calls[k].jcov >= CHAIN_MIN
  /\ clast.called => clast.cov >= CHAIN_MIN /\ clast.jcov >= CHAIN_MIN
  /\ cw.nlas <= Len(calls)
  /\ (Len(crecs) = 1 /\ crecs[1].lcp < CHAIN_MIN) => (calls = <<>> /\ cw.nlas = 0)

\* the aligner has been called for one chain and another chain that covers
\* CHAIN_MIN of a but not of b has been dropped
AlignerCalledAndChainDropped ==
  /\ calls # <<>>
  /\ cw.nlas > 0
  /\ clast.kind \in {"break", "end"}
  /\ clast.pass /\ ~clast.jpass /\ ~clast.called

\* C10: when a chain is evaluated, cov is the number of a-positions in the
\* union of the intervals [a-post, a-post + lcp) of its seeds.
CovIsUnionOfSeedIntervals ==
  (clast.kind \in {"break", "end"} /\ clast.chain # <<>>) =>
    clast.cov = Cardinality(ACover(clast.chain))

\* a chain with seeds of both buckets, one of them inside the others, is
\* evaluated
CovOfInterleavedChainEvaluated ==
  /\ clast.kind \in {"break", "end"}
  /\ Len(clast.chain) >= 3
  /\ \E i, j \in ChainSeeds(clast.chain) : DiagAt(i) # DiagAt(j)
  /\ \E i, j \in ChainSeeds(clast.chain) :
       /\ i # j
       /\ IpostAt(j) <= IpostAt(i)
       /\ IpostAt(i) + LcpAt(i) <= IpostAt(j) + LcpAt(j)
  /\ \E i, j \in ChainSeeds(clast.chain) :
       /\ IpostAt(j) < IpostAt(i) /\ IpostAt(i) < IpostAt(j) + LcpAt(j)
       /\ IpostAt(j) + LcpAt(j) < IpostAt(i) + LcpAt(i)

(***************************************************************************)
(* The redundancy filter of align_contigs                                  *)
(***************************************************************************)

\* alignments x and y begin at the same point, end at the same point
SharesStart(x, y) == x.abpos = y.abpos /\ x.bbpos = y.bbpos
SharesEnd(x, y) == x.aepos = y.aepos /\ x.bepos = y.bepos
\* the first pass has just compared two alignments with the same start and
\* the same end
ComparedTwins ==
  /\ fcmp.pass = 1
  /\ SharesStart(oblock[fcmp.o], oblock[fcmp.w])
  /\ SharesEnd(oblock[fcmp.o], oblock[fcmp.w])
\* the alignment the comparison flagged and the one it kept
Dropped == IF fcmp.gone = "o" THEN oblock[fcmp.o] ELSE oblock[fcmp.w]
Kept == IF fcmp.gone = "o" THEN oblock[fcmp.w] ELSE oblock[fcmp.o]

\* C6: when the first pass compares two alignments with the same start and
\* the same end, the one it flags has no fewer diffs than the one it keeps.
FilterDropsTwinWithMoreDiffs ==
  ComparedTwins => (fcmp.gone # "none" /\ Dropped.diffs >= Kept.diffs)

WindowExamined == cw.pc = "merge" /\ clast.kind = "none"
WindowPassedOver == cw.pc = "advance" /\ clast.kind = "none"
\* the window has records on cdiag + 1
WindowHasAux == cw.m < CEnd /\ DiagAt(cw.m) = cw.cdiag + 1
\* the window is the first of the contig pair
FirstWindow == cw.b = 0
\* cdiag is a fresh bucket: the first of the contig pair, or one whose
\* records were not the cdiag + 1 records of the window before
FreshBucket == FirstWindow \/ DiagAt(cw.b - 1) # cw.cdiag - 1

\* C11 as stated: a window is examined exactly when it has records on
\* cdiag + 1 or cdiag is a fresh bucket, the first window of the contig pair
\* counting as fresh.
WindowExaminedIffAuxOrFresh ==
  (WindowExamined \/ WindowPassedOver) =>
    (WindowExamined <=> (WindowHasAux \/ FreshBucket))

\* the same for the windows after the first, where new has been assigned
LaterWindowExaminedIffAuxOrFresh ==
  ((WindowExamined \/ WindowPassedOver) /\ ~FirstWindow) =>
    (WindowExamined <=> (WindowHasAux \/ FreshBucket))

\* a later window on the bucket the window before had as cdiag + 1, with
\* nothing on its own cdiag + 1, is passed over
LaterWindowPassedOver == WindowPassedOver /\ ~FirstWindow

\* the calls of the aligner before the chain that has just been evaluated
PriorCalls == IF clast.called THEN SubSeq(calls, 1, Len(calls) - 1) ELSE calls
\* those made in the window that is being examined
WindowCalls == SelectSeq(PriorCalls, LAMBDA c : c.cdiag = cw.cdiag)
\* those of the contig pair that returned an alignment long enough to be
\* written
AcceptedCalls == SelectSeq(PriorCalls, LAMBDA c : c.res.aepos - c.res.abpos >= ALIGN_MIN)
\* the a-end (for comp: the a-begin, counted from the other end) of the last
\* alignment of cs, and the value that blocks nothing if cs is empty
LastEndOf(cs) ==
  IF cs = <<>> THEN (IF ccomp = 1 THEN ChainALen + 1 ELSE -1)
  ELSE IF ccomp = 1 THEN ChainALen - cs[Len(cs)].res.abpos
  ELSE cs[Len(cs)].res.aepos
\* the chain that has just been evaluated lies beyond a
ChainBeyond(a) ==
  IF ccomp = 1 THEN ChainReach(clast.chain) <= a
  ELSE IpostAt(clast.chain[1]) >= a
\* a chain that passed both coverage tests has just been evaluated
ChainCovered == clast.kind \in {"break", "end"} /\ clast.jpass

\* C12 as the code has it: a chain that passed both coverage tests goes to
\* the aligner exactly when it lies beyond the a-end (for comp: a-begin) of
\* the alignment the last call of the aligner in the same window returned,
\* written or not; the first such chain of a window always goes.
ChainSkippedIffBeforeLastOfWindow ==
  ChainCovered => (clast.called <=> ChainBeyond(LastEndOf(WindowCalls)))

\* C12 as stated: a chain that passed both coverage tests goes to the
\* aligner exactly when it lies beyond the a-end (for comp: a-begin) of the
\* last accepted alignment of the contig pair.
ChainSkippedIffBeforeLastAccepted ==
  ChainCovered => (clast.called <=> ChainBeyond(LastEndOf(AcceptedCalls)))

\* a chain that passed both coverage tests is skipped, after a call in the
\* same window
ChainSkippedAfterCall == ChainCovered /\ ~clast.called /\ WindowCalls # <<>>
\* a chain goes to the aligner although it lies before the last accepted
\* alignment of the contig pair, found in an earlier window
ChainCalledBeforeLastAccepted ==
  ChainCovered /\ clast.called /\ ~ChainBeyond(LastEndOf(AcceptedCalls))

\* the a-length of an alignment the aligner returned
ALength(res) == res.aepos - res.abpos
\* the alignments the calls of the aligner returned, in the order of the calls
Returned == [k \in 1..Len(calls) |-> calls[k].res]

\* C13: the temporary file holds exactly the alignments the aligner returned
\* with aepos - abpos >= ALIGN_MIN, in the order they were returned; a shorter
\* one leaves no record, and nlas counts the records.
TfileHoldsExactlyLongEnough ==
  /\ cw.tfile = SelectSeq(Returned, LAMBDA r : ALength(r) >= ALIGN_MIN)
  /\ \A k \in 1..Len(cw.tfile) : ALength(cw.tfile[k]) >= ALIGN_MIN
  /\ cw.nlas = Len(cw.tfile)

\* an alignment of exactly ALIGN_MIN was written and a shorter one dropped
TfileWroteAtAlignMinAndDropped ==
  /\ \E k \in 1..Len(cw.tfile) : ALength(cw.tfile[k]) = ALIGN_MIN
  /\ \E k \in 1..Len(calls) : ALength(calls[k].res) < ALIGN_MIN

(***************************************************************************)
(* Where the merge puts a seed, stated on the records of the shard files.  *)
(***************************************************************************)
\* the a-contig and the two strand bits of a record, from the post lists
AContOf(rec) == P1Entry(rec.a).cont
SameStrand(rec) == P1Entry(rec.a).sign = P2Entry(rec.b).sign
\* the files (worker, family, part) that hold the record
FilesOf(rec) == {k \in UnitKeys : rec \in SeqRange(units[k[1]][k[2]][k[3]])}
\* how often the record occurs in all files together
Occurrences(rec) ==
  LET all == AllRecords
  IN  Cardinality({x \in 1..Len(all) : all[x] = rec})

\* C14: a record emitted by worker t is in exactly one shard file, once:
\* the file of worker t for part Select[a-contig], of family N when the two
\* strand bits are equal and of family C otherwise; every record of a file
\* belongs there, so the records of one a-contig and orientation lie in the
\* files of one part.
SeedInOneShardBySelectAndStrand ==
  /\ \A t \in Workers : \A x \in 1..Len(mlast[t].recs) :
       LET rec == mlast[t].recs[x]
       IN  /\ FilesOf(rec) =
                {<<t, IF SameStrand(rec) THEN "N" ELSE "C",
                   APartition.sel[AContOf(rec) + 1]>>}
           /\ Occurrences(rec) = 1
  /\ \A k \in UnitKeys : \A rec \in SeqRange(units[k[1]][k[2]][k[3]]) :
       /\ rec.a \in UNION {PostsOf(T1, i) : i \in RangeOf(k[1])}
       /\ (k[2] = "N") <=> SameStrand(rec)
       /\ k[3] = APartition.sel[AContOf(rec) + 1]
  /\ \A k, h \in UnitKeys :
       \A r \in SeqRange(units[k[1]][k[2]][k[3]]),
          q \in SeqRange(units[h[1]][h[2]][h[3]]) :
         (AContOf(r) = AContOf(q) /\ SameStrand(r) = SameStrand(q)) => k[3] = h[3]

\* the workers are through; both families and both parts hold records, and
\* one contig has records from both workers
SeedsInBothFamiliesAndParts ==
  /\ \A t \in Workers : mw[t].done
  /\ \A f \in Families : \E t \in Workers, j \in 0..(NPARTS - 1) :
        Len(units[t][f][j]) > 0
  /\ \A j \in 0..(NPARTS - 1) : \E t \in Workers, f \in Families :
        Len(units[t][f][j]) > 0
  /\ \E f \in Families, j \in 0..(NPARTS - 1) :
        \E r \in SeqRange(units[0][f][j]), q \in SeqRange(units[1][f][j]) :
           AContOf(r) = AContOf(q)

\* the T1 entry taken by the last iteration of worker t, and the positions
\* of the T2 k-mers that share its longest match
LastEntry(t) == T1[mlast[t].from + 1]
UniqueMatch(e) == LongestMatch(e) >= 12 /\ MatchCount(e, LongestMatch(e)) = 1
RepeatMatch(e) == LongestMatch(e) >= 12 /\ MatchCount(e, LongestMatch(e)) >= 2

\* C15 as stated: with FREQ = 1 an entry whose longest match has one
\* position in T2 leaves its seed records, and one whose longest match has
\* two or more positions leaves none.
FreqOneAcceptsUniqueMatches ==
  FREQ = 1 =>
    \A t \in Workers :
      mlast[t].kind \in {"emit", "empty"} =>
        /\ UniqueMatch(LastEntry(t)) => Len(mlast[t].recs) > 0
        /\ RepeatMatch(LastEntry(t)) => mlast[t].recs = <<>>

\* what the code does with FREQ = 1: no iteration leaves a record
FreqOneEmitsNothing ==
  FREQ = 1 => \A k \in UnitKeys : units[k[1]][k[2]][k[3]] = <<>>

\* with FREQ = 2 an entry with a unique match has left its records
FreqTwoEmitsUniqueMatch ==
  /\ FREQ = 2
  /\ \E t \in Workers :
       /\ mlast[t].kind = "emit"
       /\ UniqueMatch(LastEntry(t))
       /\ Len(mlast[t].recs) > 0

\* the first pass has just compared two alignments that share the start
\* and not the end, the end and not the start
ComparedStartOnly ==
  /\ fcmp.pass = 1
  /\ SharesStart(oblock[fcmp.o], oblock[fcmp.w])
  /\ ~SharesEnd(oblock[fcmp.o], oblock[fcmp.w])
ComparedEndOnly ==
  /\ fcmp.pass = 1
  /\ SharesEnd(oblock[fcmp.o], oblock[fcmp.w])
  /\ ~SharesStart(oblock[fcmp.o], oblock[fcmp.w])
AExtent(x) == x.aepos - x.abpos

\* C16: when the first pass compares two alignments that share only the
\* start or only the end, it flags one of them, never the one with the
\* longer a-extent; with a common end the one flagged has the later abpos.
FilterDropsShorterOfSharedEndpoint ==
  /\ (ComparedStartOnly \/ ComparedEndOnly) =>
        /\ fcmp.gone # "none"
        /\ eflags[IF fcmp.gone = "o" THEN fcmp.o ELSE fcmp.w] = ELIMINATED
        /\ eflags[IF fcmp.gone = "o" THEN fcmp.w ELSE fcmp.o] # ELIMINATED
        /\ AExtent(Dropped) <= AExtent(Kept)
  /\ ComparedStartOnly => Dropped.aepos <= Kept.aepos
  /\ ComparedEndOnly => Dropped.abpos >= Kept.abpos

\* of two alignments with a common start the shorter came first in perm and
\* was flagged as o
FilterDroppedShorterAsO ==
  /\ ComparedStartOnly
  /\ fcmp.gone = "o"
  /\ AExtent(Dropped) < AExtent(Kept)
\* of two alignments with a common end the one with the later abpos was
\* flagged
FilterDroppedLaterStart ==
  /\ ComparedEndOnly
  /\ fcmp.gone = "w"
  /\ Dropped.abpos > Kept.abpos

(***************************************************************************)
(* The b-trajectories of two alignments, sampled as the second pass        *)
(* samples them: at the start of the later alignment, at every TSPACE      *)
(* boundary of a inside their common a-interval, and at its end.           *)
(***************************************************************************)
PanelOf(x) == x \div TSPACE
\* the b-coordinate of alignment p at the TSPACE boundary x it crosses, and
\* the b-length of its trace over the panel that starts there
BAt(p, x) == p.bbpos + SumTo(p.trace, 1, PanelOf(x) - PanelOf(p.abpos))
SegAt(p, x) == p.trace[PanelOf(x) - PanelOf(p.abpos) + 1]
\* the end of the common a-interval, the boundary at or before the start of
\* k, the last boundary before the end
OverlapEnd(jp, kp) == IF jp.aepos < kp.aepos THEN jp.aepos ELSE kp.aepos
FirstBoundary(kp) == PanelOf(kp.abpos) * TSPACE
LastBoundary(jp, kp) == PanelOf(OverlapEnd(jp, kp) - 1) * TSPACE
InnerBoundaries(jp, kp) ==
  {x \in (FirstBoundary(kp) + 1)..(OverlapEnd(jp, kp) - 1) : x % TSPACE = 0}
\* b of k minus b of j at the start of k (j interpolated within its panel)
FirstDiff(jp, kp) ==
  LET base == FirstBoundary(kp)
      from == IF PanelOf(jp.abpos) = PanelOf(kp.abpos) THEN jp.abpos ELSE base
  IN  kp.bbpos - (BAt(jp, base)
                    + (SegAt(jp, base) * (kp.abpos - from)) \div (base + TSPACE - from))
\* at an inner boundary
InnerDiff(jp, kp, x) == BAt(kp, x) - BAt(jp, x)
\* at the end of the common a-interval (the alignment that goes on is
\* interpolated within its panel)
LastDiff(jp, kp) ==
  LET ae == OverlapEnd(jp, kp)
      lc == LastBoundary(jp, kp)
  IN  IF ae = jp.aepos
      THEN (BAt(kp, lc) + (SegAt(kp, lc) * (ae - lc)) \div TSPACE) - jp.bepos
      ELSE kp.bepos - (BAt(jp, lc) + (SegAt(jp, lc) * (ae - lc)) \div TSPACE)
SampleDiffs(jp, kp) ==
  {FirstDiff(jp, kp), LastDiff(jp, kp)}
    \cup {InnerDiff(jp, kp, x) : x \in InnerBoundaries(jp, kp)}
\* the trajectories cross: a difference is zero or two have opposite signs
Crosses(jp, kp) ==
  \/ 0 \in SampleDiffs(jp, kp)
  \/ \E d, e \in SampleDiffs(jp, kp) : d < 0 /\ e > 0
Abs(x) == IF x < 0 THEN -x ELSE x
\* the difference of smallest magnitude, 0 when the trajectories cross
SmallestDiff(jp, kp) ==
  IF Crosses(jp, kp) THEN 0
  ELSE CHOOSE d \in SampleDiffs(jp, kp) :
         \A e \in SampleDiffs(jp, kp) : Abs(d) <= Abs(e)

\* the second pass has just compared o and w: the a-intervals overlap, w is
\* not flagged; entwine was called when the b-intervals overlap too
ComparedInPass2 == fcmp.pass = 2
Entwined == fcmp.pass = 2 /\ fcmp.ent.called
CmpO == oblock[fcmp.o]
CmpW == oblock[fcmp.w]
\* x covers the a- and the b-interval of y, give or take slack bases at
\* each end
Dominates(x, y, slack) ==
  /\ x.abpos <= y.abpos + slack /\ y.aepos <= x.aepos + slack
  /\ x.bbpos <= y.bbpos + slack /\ y.bepos <= x.bepos + slack

\* C17 as stated: a comparison of the second pass flags an alignment only if
\* the sampled b-trajectories do not cross and the alignment it keeps covers
\* the a-interval and the b-interval of the flagged one within 10 bases.
Pass2DropsOnlyDominated ==
  (ComparedInPass2 /\ fcmp.gone # "none") =>
     /\ Entwined
     /\ ~Crosses(CmpO, CmpW)
     /\ Dominates(Kept, Dropped, 10)

\* what holds of the code: the flagged one is on one side of the other at
\* every sample, and its b-end is within 10 of the other's or before it
Pass2DropsOnlyUncrossed ==
  (ComparedInPass2 /\ fcmp.gone # "none") =>
     /\ Entwined
     /\ ~Crosses(CmpO, CmpW)
     /\ Dropped.bepos <= Kept.bepos + 10
\* w was flagged although it goes on in a more than 10 bases beyond o
Pass2DroppedLongerInA ==
  /\ ComparedInPass2 /\ fcmp.gone = "w"
  /\ CmpW.aepos > CmpO.aepos + 10

\* C18: when the second pass compares two alignments whose a-intervals and
\* b-intervals overlap and whose sampled b-trajectories cross (a difference
\* is zero or two differences have opposite signs), it flags neither.
Pass2KeepsCrossingPair ==
  (Entwined /\ Crosses(CmpO, CmpW)) =>
     /\ fcmp.gone = "none"
     /\ eflags[fcmp.o] # ELIMINATED
     /\ eflags[fcmp.w] # ELIMINATED

\* two alignments whose differences change sign without being zero at a
\* sample were compared, and both were written
Pass2KeptPairCrossingBetweenSamples ==
  /\ fpc = "done"
  /\ \E x, y \in 1..Len(ofile) :
        /\ x < y
        /\ oblock[ofile[x]].aepos > oblock[ofile[y]].abpos
        /\ oblock[ofile[x]].bepos > oblock[ofile[y]].bbpos
        /\ oblock[ofile[x]].bbpos < oblock[ofile[y]].bepos
        /\ Crosses(oblock[ofile[x]], oblock[ofile[y]])
        /\ 0 \notin SampleDiffs(oblock[ofile[x]], oblock[ofile[y]])
\* the comparison itself: a change of sign and no zero
Pass2ComparedSignChange ==
  /\ Entwined /\ Crosses(CmpO, CmpW) /\ 0 \notin SampleDiffs(CmpO, CmpW)
  /\ fcmp.gone = "none"

\* the inner boundaries at which the two trajectories meet
ZeroBoundaries(jp, kp) ==
  {x \in InnerBoundaries(jp, kp) : InnerDiff(jp, kp, x) = 0}
\* x is where the trajectories cross: they meet at x, or x is a sample
\* next to which the difference changes sign
CrossingAt(jp, kp, x) ==
  \/ x \in ZeroBoundaries(jp, kp)
  \/ x = kp.abpos /\ FirstDiff(jp, kp) = 0
  \/ x = OverlapEnd(jp, kp) /\ LastDiff(jp, kp) = 0
  \/ /\ x \in InnerBoundaries(jp, kp) \cup {kp.abpos, OverlapEnd(jp, kp)}
     /\ ~(0 \in SampleDiffs(jp, kp))

\* C19 as stated: entwine returns the difference of smallest magnitude over
\* the samples, 0 when the differences change sign, and where is the
\* a-coordinate of a crossing whenever the trajectories cross and -1 only
\* when they do not.
EntwineFindsEveryCrossing ==
  Entwined =>
     /\ fcmp.ent.dist = SmallestDiff(CmpO, CmpW)
     /\ (fcmp.ent.where # -1) <=> Crosses(CmpO, CmpW)
     /\ fcmp.ent.where # -1 => CrossingAt(CmpO, CmpW, fcmp.ent.where)

\* C19 as the code has it: entwine returns the difference of smallest
\* magnitude over the samples, 0 when a difference is zero or the
\* differences change sign, and where is the last TSPACE boundary inside
\* the common a-interval at which the difference is 0, -1 when there is
\* none.
EntwineFindsLastZeroBoundary ==
  Entwined =>
     /\ CmpO.abpos <= CmpW.abpos
     /\ fcmp.ent.dist = SmallestDiff(CmpO, CmpW)
     /\ fcmp.ent.where =
          IF ZeroBoundaries(CmpO, CmpW) = {} THEN -1
          ELSE CHOOSE x \in ZeroBoundaries(CmpO, CmpW) :
                 \A y \in ZeroBoundaries(CmpO, CmpW) : y <= x

\* entwine returned 0 for a change of sign between samples and left where
\* at -1
EntwineCrossingNotLocated ==
  /\ Entwined /\ Crosses(CmpO, CmpW)
  /\ ZeroBoundaries(CmpO, CmpW) = {}
  /\ fcmp.ent.dist = 0 /\ fcmp.ent.where = -1
\* the trajectories meet at two boundaries and where is the second
EntwineLocatedLastOfTwo ==
  /\ Entwined
  /\ Cardinality(ZeroBoundaries(CmpO, CmpW)) = 2
  /\ fcmp.ent.where = 200
\* entwine returned a difference that is not the first one
EntwineReturnedLaterDiff ==
  /\ Entwined /\ ~Crosses(CmpO, CmpW)
  /\ fcmp.ent.dist # FirstDiff(CmpO, CmpW)

(***************************************************************************)
(* The life of the seed shard files                                        *)
(***************************************************************************)
\* the worker and the part a file name was made for (3851-3862): the name
\* with number x belongs to unit x of the first layout, row x / NPARTS and
\* part x % NPARTS
MadeForRow(n) == n[2] \div NPARTS
MadeForPart(n) == n[2] % NPARTS
FamilyNo(n) == IF n[1] = "N" THEN 0 ELSE 1

\* C20: a shard file is created for the worker and the part of its name; it
\* is opened for reading at most once, by the reimport worker with the
\* number of the worker that wrote it, in the round of its family and part;
\* it is unlinked in that round with every reimport worker joined; and when
\* pair_sort_search has returned every file has been opened once and is
\* gone.
ShardOpenedOnceByItsWorkerThenUnlinked ==
  \A n \in Names :
    LET f == ufile[n]
    IN  /\ f.st # "none" => (f.row = MadeForRow(n) /\ f.part = MadeForPart(n))
        /\ Len(f.opens) <= 1
        /\ \A x \in 1..Len(f.opens) :
              /\ f.opens[x].p = MadeForRow(n)
              /\ f.opens[x].i = MadeForPart(n)
              /\ f.opens[x].u = FamilyNo(n)
        /\ f.st = "gone" =>
              /\ Len(f.opens) = 1
              /\ f.gone[1].joined = Workers
              /\ f.gone[1].u = FamilyNo(n) /\ f.gone[1].i = MadeForPart(n)
        /\ (upc.pc = "reimport" /\ Len(f.opens) = 1 /\ f.opens[1].u = upc.u
              /\ f.opens[1].i = upc.i) => f.st = "closed"
        /\ upc.pc = "returned" => (f.st = "gone" /\ Len(f.opens) = 1)

\* pair_sort_search has returned: every file was written by its worker,
\* some with records and some without, and read back
ShardsAllReadAndGone ==
  /\ upc.pc = "returned"
  /\ \A n \in Names : ufile[n].st = "gone"
  /\ \E n, h \in Names : ufile[n].len = 0 /\ ufile[h].len = 1
  /\ NPARTS > 1
\* a reimport worker has joined while the other still reads: no file of the
\* round is unlinked yet
ShardKeptWhileWorkerReads ==
  /\ upc.pc = "reimport"
  /\ \E p, q \in Workers : uthr[p] = "joined" /\ uthr[q] = "run"
  /\ \A p \in Workers : ufile[RoundName(upc.u, upc.i, p)].st = "closed"

(***************************************************************************)
(* The slots of the sort array, stated on the shard files of the round.    *)
(***************************************************************************)
\* the records of a-contig j in the file of thread q, and before its k-th
CountOf(q, j) == Cardinality({k \in 1..Len(sfile[q]) : sfile[q][k].icont = j})
RankOf(q, k) ==
  Cardinality({l \in 1..(k - 1) : sfile[q][l].icont = sfile[q][k].icont})
SumOver(S, f(_)) ==
  LET RECURSIVE Go(_)
      Go(R) == IF R = {} THEN 0
               ELSE LET x == CHOOSE y \in R : TRUE IN f(x) + Go(R \ {x})
  IN  Go(S)
\* the records of the round, and of the a-contigs of the part before j
RoundRecords == SumOver(Threads, LAMBDA q : Len(sfile[q]))
RecordsBefore(j) ==
  SumOver({i \in PassConts : i < j},
          LAMBDA i : SumOver(Threads, LAMBDA q : CountOf(q, i)))
\* the slot the k-th record of the file of thread q belongs in: after the
\* records of the a-contigs before its own, after those of its a-contig in
\* the files of the threads before q, in the order of the file
SlotOf(q, k) ==
  RecordsBefore(sfile[q][k].icont)
    + SumOver({u \in Threads : u < q}, LAMBDA u : CountOf(u, sfile[q][k].icont))
    + RankOf(q, k)
FilledSlots == {x \in DOMAIN sarr : sarr[x] # NoRec}
Loading == sphase = "load"
AllFilesNonEmpty == \A q \in Threads : Len(sfile[q]) >= 1

\* what determinism asks of a re-import round: no slot is written by two
\* threads (as many slots are filled as records were written), each filled
\* slot holds the record the files alone assign to it, and when the threads
\* are through every record of the files is in its slot
RoundIsFunctionOfFiles ==
  Loading =>
    /\ Cardinality(FilledSlots) = SumOver(Threads, LAMBDA q : rp[q].nrec)
    /\ \A x \in FilledSlots :
         \E q \in Threads : \E k \in 1..Len(sfile[q]) :
            SlotOf(q, k) = x /\ sarr[x].of = sfile[q][k]
    /\ (\A q \in Threads : rp[q].pc = "done") =>
         \A q \in Threads : \A k \in 1..Len(sfile[q]) :
            sarr[SlotOf(q, k)].of = sfile[q][k]

\* C21 as stated: whatever the interleaving of the threads, the sort array
\* of a re-import round is the one the shard files determine, no two
\* threads writing the same slot.
SortArraySameUnderEveryInterleaving == RoundIsFunctionOfFiles

\* the part of C21 that holds: rounds in which no shard file is empty
SortArraySameForNonEmptyFiles == AllFilesNonEmpty => RoundIsFunctionOfFiles

\* a thread with an empty file wrote into the slot of a record of another
SlotWrittenByTwoThreads ==
  /\ Loading
  /\ \E q, u \in Threads : q # u /\ Len(sfile[q]) = 0 /\ rp[q].nrec >= 1
       /\ \E k \in 1..Len(sfile[u]) :
            /\ SlotOf(u, k) \in DOMAIN sarr
            /\ sarr[SlotOf(u, k)].of = stale
            /\ stale # sfile[u][k]
\* the threads are through with files of records of two a-contigs, the
\* later thread holding the earlier a-contig
BothThreadsLoadedTwoContigs ==
  /\ Loading /\ AllFilesNonEmpty
  /\ \A q \in Threads : rp[q].pc = "done"
  /\ \E q, u \in Threads : \E k \in 1..Len(sfile[q]), l \in 1..Len(sfile[u]) :
        q < u /\ sfile[q][k].icont > sfile[u][l].icont

(***************************************************************************)
(* The run of main: what is left behind and what is reported.              *)
(***************************************************************************)
SortSearchDone == mainpc.pc = "lasort"

\* C22: when pair_sort_search has finished, the header of the output file of
\* every thread holds the number of alignment records the thread appended
\* over all parts and both passes (0 for a thread that appended none),
\* followed by the trace spacing 100.
HeaderCountsAppendedRecords ==
  SortSearchDone =>
    \A p \in Workers : las[p].nels = las[p].recs /\ las[p].tspace = 100

\* one thread appended nothing, the other records in several rounds, and
\* neither count is the value the header was first written with
HeaderOfIdleAndBusyThread ==
  /\ SortSearchDone
  /\ \E p, q \in Workers :
        /\ las[p].recs = 0 /\ las[p].nels = 0
        /\ las[q].recs >= 5 /\ las[q].nels = las[q].recs

Exited == prog.status # -1
FailedSortOrMerge == Exited /\ prog.diag \in {"lasort", "lamerge"}

\* C23 as stated: when LAsort or LAmerge fails the failure is reported, the
\* exit status is 1 and no shard file, work file or output file of the
\* threads is left under SORT_PATH.
FailedSortOrMergeLeavesNoScratch ==
  FailedSortOrMerge =>
    /\ prog.status = 1
    /\ files \cap (Names \cup AlgnFiles \cup UniqFiles \cup UniqSFiles) = {}

\* the part of C23 that holds: exit status 1, and no shard file and no
\* output file of the threads, sorted or not, is left
FailedSortOrMergeRemovesOutputs ==
  FailedSortOrMerge =>
    /\ prog.status = 1
    /\ files \cap (Names \cup UniqFiles \cup UniqSFiles) = {}

\* LAsort has failed and the work files of all threads are still there
FailedSortLeftWorkFiles ==
  /\ Exited /\ prog.diag = "lasort" /\ prog.status = 1
  /\ AlgnFiles \subseteq files

\* C24 as stated: whenever the run ends with exit status 1 the result file
\* ALGN_NAME.las has not been left behind.
ExitOneLeavesNoResult == prog.status = 1 => OutFile \notin files

\* the part of C24 that holds: a run that ends with status 1 before LAmerge
\* is started has made no result file
ExitOneBeforeMergeLeavesNoResult ==
  (prog.status = 1 /\ prog.diag \notin {"lamerge", "remove"}) => OutFile \notin files

\* the rm of the intermediate files has failed: exit status 1 with the
\* result file written by LAmerge in place
FailedRemoveLeftResult ==
  /\ prog.status = 1 /\ prog.diag = "remove"
  /\ OutFile \in files

\* the indices of the command line do not go together, or not with -f
IndexMismatch ==
  \/ cmd.nsqrt2 # NTHREADS
  \/ cmd.kmer2 # KMER
  \/ cmd.freq1 < cmd.f \/ cmd.freq2 < cmd.f
NothingCreatedOrStarted == files = {} /\ ~prog.started

\* C25: a run on two indices built with different thread counts or k-mer
\* sizes, or with the cutoff of an index below FREQ, never gets past the
\* tests on the indices: no scratch file is created and no worker started,
\* and when it ends it has printed a diagnostic and its exit status is 1.
MismatchedIndicesRejectedBeforeWork ==
  IndexMismatch =>
    /\ mainpc.pc \in {"options", "path", "open", "exit"}
    /\ NothingCreatedOrStarted
    /\ Exited => (prog.status = 1 /\ prog.diag # "")

\* the k-mer sizes alone differ: the run has ended at the last of the tests
RejectedOnKmerSizeAlone ==
  /\ Exited /\ prog.diag = "kmer" /\ prog.status = 1
  /\ cmd.nsqrt2 = NTHREADS /\ cmd.freq1 >= cmd.f /\ cmd.freq2 >= cmd.f
  /\ NothingCreatedOrStarted

\* the command line has no -f, or not exactly two source arguments
NoFreqOrNotTwoSources == cmd.f < 0 \/ cmd.nsrc # 2
NothingOpenedOrCreated == ~prog.opened /\ files = {} /\ ~prog.started

\* C26 as stated: a command line without -f, or without exactly two source
\* arguments, prints the usage and exits with status 1 without opening an
\* index or creating a file.
NoFreqOrSourcesPrintsUsage ==
  NoFreqOrNotTwoSources =>
    /\ mainpc.pc \in {"options", "exit"}
    /\ NothingOpenedOrCreated
    /\ Exited => (prog.status = 1 /\ prog.diag = "usage")

\* C26, amended: such a command line ends the run with status 1 before an
\* index is opened or a file created; what is printed is the usage, unless
\* a -e value outside [0.6,1.0) was met among the options, which is
\* reported instead.
NoFreqOrSourcesExitsOneWithUsageOrRange ==
  NoFreqOrNotTwoSources =>
    /\ mainpc.pc \in {"options", "exit"}
    /\ NothingOpenedOrCreated
    /\ Exited => /\ prog.status = 1
                 /\ prog.diag = IF cmd.erange THEN "erange" ELSE "usage"

\* a run without -f has ended on the -e value, and one on the usage
NoFreqReportedRange ==
  /\ Exited /\ cmd.f < 0 /\ cmd.nsrc = 2 /\ cmd.erange
  /\ prog.diag = "erange" /\ prog.status = 1
NoFreqPrintedUsage ==
  /\ Exited /\ cmd.f < 0 /\ cmd.nsrc = 2 /\ ~cmd.erange
  /\ prog.diag = "usage" /\ prog.status = 1 /\ NothingOpenedOrCreated

(***************************************************************************)
(* The diagonal of a seed in the bytes of its sort record.                 *)
(***************************************************************************)
\* the b-post of the seed lies in its b-contig
BPostInContig(sd) == 0 <= sd.jpost /\ sd.jpost <= BLens[sd.jcont + 1]

\* C27: for every seed re-imported whose b-post is between 0 and the length
\* of its b-contig, the diagonal (a-post - b-post + b-length on the same
\* strand, a-post + b-post on the opposite) is not negative, its bucket
\* diag / 64 is stored whole in the DBYTE bytes of pdiag, and bucket * 64
\* plus the remainder byte is the diagonal again.
DiagonalStoredExactly ==
  \A x \in DOMAIN sarr :
    (sarr[x] # NoRec /\ BPostInContig(sarr[x].of)) =>
      LET diag == DiagOf(sarr[x].of)
      IN  /\ diag >= 0
          /\ sarr[x].pdiag = diag \div BUCK_WIDTH
          /\ diag \div BUCK_WIDTH < 256 ^ DBYTE
          /\ sarr[x].drem \in 0..(BUCK_WIDTH - 1)
          /\ sarr[x].pdiag * BUCK_WIDTH + sarr[x].drem = diag

\* a round has stored the seed with the largest a-post of one byte and the
\* seed whose b-post is the length of its b-contig, on the same strand with
\* diagonals 355 and 0
StoredLargestAndZeroDiagonal ==
  /\ scomp = 0
  /\ \E x, y \in DOMAIN sarr :
        /\ sarr[x] # NoRec /\ sarr[x].of.ipost = 256 ^ IPOST - 1
        /\ sarr[x].pdiag * BUCK_WIDTH + sarr[x].drem = 355
        /\ sarr[y] # NoRec /\ sarr[y].of.jpost = BLens[sarr[y].of.jcont + 1]
        /\ sarr[y].of.lcp > 0
        /\ sarr[y].pdiag = 0 /\ sarr[y].drem = 0

(***************************************************************************)
(* The calls of search_seeds, stated on the sorted array and the panels.   *)
(***************************************************************************)
Searched == sphase = "searched"
RangeConts(r) == r.beg..(r.end - 1)
\* the slots of the records of a-contig j and b-contig jc
PairSlots(j, jc) == {x \in PanelSlots(j) : sarr[x].jcont = jc}
LeastOf(S) == CHOOSE x \in S : \A y \in S : x <= y
\* one call for every contig pair with a record in the range, on exactly
\* the records of the pair
CallOwed(j, jc) ==
  [b |-> LeastOf(PairSlots(j, jc)),
   x |-> LeastOf(PairSlots(j, jc)) + Cardinality(PairSlots(j, jc)),
   icrnt |-> j, jcrnt |-> jc]
CallsOwed(r) ==
  {CallOwed(z[1], z[2]) :
     z \in {y \in RangeConts(r) \X {sarr[x].jcont : x \in 0..(Nels - 1)} :
              PairSlots(y[1], y[2]) # {}}}
RangeEnd(r) == IF r.beg = r.end THEN r.off ELSE PanelHi(r.end - 1)
WalkAsOwed(p) ==
  LET w == scalls[p].walk
      r == scalls[p].range
  IN  /\ {w.calls[k] : k \in 1..Len(w.calls)} = CallsOwed(r)
      /\ Len(w.calls) = Cardinality(CallsOwed(r))
      /\ w.x = RangeEnd(r)

\* C28 as stated: search_seeds calls align_contigs exactly once for every
\* (a-contig, b-contig) pair with a seed in its range, on exactly the
\* records of that pair; it makes no call and consumes no record for an
\* a-contig whose panel is empty; the walk ends at the end of the range.
SearchCallsOncePerContigPair ==
  Searched => \A p \in Threads : WalkAsOwed(p)

\* the part of C28 that holds: ranges all of whose a-contigs have records
SearchCallsOncePerPairOfFullPanels ==
  Searched =>
    \A p \in Threads :
      (\A j \in RangeConts(scalls[p].range) : PanelLen(j) > 0) => WalkAsOwed(p)

\* a thread has made a call for an a-contig without records, on a record
\* of the a-contig after it
CalledForEmptyPanel ==
  /\ Searched
  /\ \E p \in Threads : \E k \in 1..Len(scalls[p].walk.calls) :
        LET c == scalls[p].walk.calls[k]
        IN  /\ PanelLen(c.icrnt) = 0
            /\ c.b < Nels /\ sarr[c.b].of.icont = c.icrnt + 1
\* a thread has walked two a-contigs with records, one of two b-contigs
WalkedTwoContigsAndPairs ==
  /\ Searched
  /\ \E p \in Threads :
        /\ Cardinality(RangeConts(scalls[p].range)) = 2
        /\ \A j \in RangeConts(scalls[p].range) : PanelLen(j) > 0
        /\ Len(scalls[p].walk.calls) = 3

\* the slots taken so far: one for every record a thread has written
SlotsTaken == SumOver(Threads, LAMBDA q : rp[q].nrec)
SlotsDisjointAndInOrder ==
  /\ Cardinality(FilledSlots) = SlotsTaken
  /\ FilledSlots \subseteq 0..(RoundRecords - 1)
  /\ \A x, y \in FilledSlots : sarr[x].of.icont < sarr[y].of.icont => x < y
  /\ (\A q \in Threads : rp[q].pc = "done") =>
        /\ FilledSlots = 0..(RoundRecords - 1)
        /\ Nels = RoundRecords

\* C29 as stated: in every re-import round the slots the workers take
\* through buck[a-contig]++ are pairwise distinct under every interleaving
\* and together are exactly [0, nels), nels the number of seed records in
\* the shard files of the round, the slots of a-contig j before those of
\* a-contig j+1.
SlotsOfWorkersDistinctAndExact == Loading => SlotsDisjointAndInOrder

\* the part of C29 that holds: rounds in which no shard file is empty
SlotsDistinctAndExactForNonEmptyFiles ==
  (Loading /\ AllFilesNonEmpty) => SlotsDisjointAndInOrder

\* a thread with an empty file has taken a slot that a record of the other
\* thread was written to: two slots taken, one filled
SlotTakenTwice ==
  /\ Loading
  /\ \E q \in Threads : Len(sfile[q]) = 0 /\ rp[q].nrec = 1
  /\ SlotsTaken = 2 /\ Cardinality(FilledSlots) = 1
\* both threads are through with their files, three a-contig segments of
\* the array filled by interleaved writes
SlotsFilledByBothThreads ==
  /\ Loading /\ AllFilesNonEmpty
  /\ \A q \in Threads : rp[q].pc = "done"
  /\ RoundRecords >= 3
  /\ \E x, y \in FilledSlots : sarr[x].of.icont # sarr[y].of.icont

(***************************************************************************)
(* The merge loop of a window: what it consumes and how it ends.           *)
(***************************************************************************)
InMerge == cw.pc = "merge"
MergeEnded == clast.kind = "end"
\* the records of the window not yet taken, and the step past the last
RecordsLeft == (cw.m + 1 - cw.s) + (cw.e - cw.t)

\* while the loop runs [b,s) and [m,t) are the records taken; a seed that
\* joins a chain is a record; after the step that ends the loop every record
\* of [b,m) and [m,e) is taken, and the chain that step tested is the
\* running chain as it was, ending with the last record taken
MergeLoopState ==
  /\ InMerge => /\ cw.go = 1
                /\ cw.b <= cw.s /\ cw.s <= cw.m /\ cw.m <= cw.t /\ cw.t <= cw.e
                /\ (cw.s = cw.m) = (cw.ipost = MAX_INT64)
                /\ (cw.t = cw.e) = (cw.apost = MAX_INT64)
  /\ clast.kind \in {"extend", "break"} =>
        (clast.idx \in cw.b..(cw.e - 1) /\ clast.npost < MAX_INT64)
  /\ MergeEnded => /\ cw.pc = "advance" /\ cw.go = 0
                   /\ cw.s = cw.m + 1 /\ cw.t = cw.e
                   /\ clast.idx = -1 /\ clast.npost = MAX_INT64
                   /\ cw.chain = clast.chain /\ clast.chain # <<>>
                   /\ Len(cw.list) = Len(clast.chain)
                   /\ clast.chain[Len(clast.chain)] \in {cw.m - 1, cw.e - 1}
                   /\ \A k \in 1..Len(clast.chain) :
                        clast.chain[k] \in cw.b..(cw.e - 1)

\* a step of the loop takes the record at s or the record at t, that one
\* alone, or is the step past the last record, which ends the loop
MergeLoopStep ==
  InMerge =>
    /\ RecordsLeft' = RecordsLeft - 1
    /\ \/ cw'.s = cw.s + 1 /\ cw'.t = cw.t /\ cw.s < cw.m /\ clast'.idx = cw.s
       \/ cw'.t = cw.t + 1 /\ cw'.s = cw.s /\ cw.t < cw.e /\ clast'.idx = cw.t
       \/ /\ cw'.s = cw.s + 1 /\ cw'.t = cw.t /\ cw.s = cw.m /\ cw.t = cw.e
          /\ clast'.kind = "end" /\ cw'.pc = "advance"
    /\ clast'.kind # "end" => cw'.pc = "merge"

\* C30: for every examined window the merge loop ends, having taken every
\* record of [b,m) and of [m,e) exactly once; the end of the window is a
\* chain break: the last running chain is tested once, by the step past the
\* last record, and that step adds no seed to any chain.
MergeLoopTakesEachRecordOnceAndEnds ==
  /\ []MergeLoopState
  /\ [][MergeLoopStep]_vars
  /\ (InMerge ~> MergeEnded)

\* the loop of a window with records of both buckets has ended on a chain
\* of several seeds
MergedBothBucketsToTheEnd ==
  /\ MergeEnded
  /\ cw.aux = 1 /\ cw.m - cw.b >= 2 /\ cw.e - cw.m >= 1
  /\ Len(clast.chain) >= 2

(***************************************************************************)
(* The windows of a contig pair and the chains tested in them.             *)
(***************************************************************************)
SearchDone == cw.pc = "done"
Buckets == {crecs[k].pdiag : k \in 1..Len(crecs)}
BucketRecs(d) == {i \in 0..(CEnd - 1) : crecs[i + 1].pdiag = d}
Examined == {k \in 1..Len(cw.wins) : cw.wins[k].examined}
\* window k has bucket d as [b,m), as [m,e)
LowerOf(k, d) ==
  cw.wins[k].cdiag = d /\ cw.wins[k].b..(cw.wins[k].m - 1) = BucketRecs(d)
UpperOf(k, d) ==
  /\ cw.wins[k].aux = 1 /\ cw.wins[k].cdiag + 1 = d
  /\ cw.wins[k].m..(cw.wins[k].e - 1) = BucketRecs(d)
\* the seed just taken went to the list with the offset of its bucket
TakenWithBucketOffset ==
  clast.kind \in {"extend", "break"} =>
    cw.list[Len(cw.list)].jpost =
      clast.npost - (crecs[clast.idx + 1].drem
                       + (IF clast.idx >= cw.m THEN 64 ELSE 0))
BucketsExamined ==
  \A d \in Buckets :
    /\ \E k \in Examined : LowerOf(k, d) \/ UpperOf(k, d)
    /\ (d + 1) \in Buckets =>
         Cardinality({k \in Examined : LowerOf(k, d) /\ UpperOf(k, d + 1)}) = 1

\* C31 as stated: for every contig pair every non-empty diagonal bucket d is
\* examined in some window, and when bucket d+1 is non-empty too exactly
\* one window with [b,m) = bucket d and [m,e) = bucket d+1 is examined, in
\* which the seeds of bucket d+1 carry the offsets dg + 64.
EveryBucketExaminedWithNeighbour ==
  /\ TakenWithBucketOffset
  /\ SearchDone => BucketsExamined

\* the part of C31 that holds: contig pairs entered with new non-zero
EveryBucketExaminedWhenNewSet ==
  /\ TakenWithBucketOffset
  /\ (SearchDone /\ cw.wins[1].new # 0) => BucketsExamined

\* the search is over and the first bucket, alone in its window, was in no
\* window that was examined
FirstBucketNeverExamined ==
  /\ SearchDone
  /\ cw.wins[1].new = 0 /\ cw.wins[1].aux = 0 /\ ~cw.wins[1].examined
  /\ \A k \in Examined : ~UpperOf(k, cw.wins[1].cdiag)
\* three buckets in a row were examined as two windows of neighbours
NeighbourWindowsExamined ==
  /\ SearchDone
  /\ \E d \in Buckets : \E j, k \in Examined :
        /\ LowerOf(j, d) /\ UpperOf(j, d + 1)
        /\ LowerOf(k, d + 1) /\ UpperOf(k, d + 2)

RecordsOf(ch) == {ch[i] : i \in 1..Len(ch)}
\* the chains that reached CHAIN_MIN and were passed over as chains of the
\* lower bucket alone in a window that is not new
SkippedByGate ==
  {k \in 1..Len(cw.evals) :
     /\ cw.evals[k].cov >= CHAIN_MIN /\ cw.evals[k].mix = 1
     /\ cw.wins[cw.evals[k].win].new = 0}
\* chain k was part of a chain with at least its coverage that passed the
\* test in the window before, whose upper bucket is the lower bucket of k
InPrecedingWindow(k) ==
  \E j \in 1..Len(cw.evals) :
    /\ cw.evals[j].win = cw.evals[k].win - 1
    /\ cw.wins[cw.evals[j].win].cdiag + 1 = cw.wins[cw.evals[k].win].cdiag
    /\ RecordsOf(cw.evals[k].chain) \subseteq RecordsOf(cw.evals[j].chain)
    /\ cw.evals[j].cov >= cw.evals[k].cov
    /\ cw.evals[j].pass
\* a chain of one bucket that reached CHAIN_MIN passed the test here or as
\* part of a chain of another window
SingleBucketPassesSomewhere(k) ==
  (cw.evals[k].cov >= CHAIN_MIN /\ cw.evals[k].mix # 3) =>
     \/ cw.evals[k].pass
     \/ \E j \in 1..Len(cw.evals) :
          /\ cw.evals[j].pass
          /\ RecordsOf(cw.evals[k].chain) \subseteq RecordsOf(cw.evals[j].chain)

\* C32 as stated: the gate (mix != 1 || new) loses no chain: a chain of
\* seeds of the lower bucket d alone that is skipped in window (d, d+1)
\* with mix = 1 and new = 0 was part of a chain of at least the same
\* a-coverage evaluated in the preceding window (d-1, d), and every
\* single-bucket chain with cov >= CHAIN_MIN passes the gate in some window.
GateLosesNoChain ==
  /\ \A k \in SkippedByGate : InPrecedingWindow(k)
  /\ \A k \in 1..Len(cw.evals) : SingleBucketPassesSomewhere(k)

\* the part of C32 that holds: the windows after the first of the pair
GateLosesNoChainAfterFirstWindow ==
  /\ \A k \in SkippedByGate : cw.evals[k].win > 1 => InPrecedingWindow(k)
  /\ \A k \in 1..Len(cw.evals) :
       cw.evals[k].win > 1 => SingleBucketPassesSomewhere(k)

\* a chain of the first window reached CHAIN_MIN and was passed over
ChainOfFirstWindowSkipped ==
  \E k \in SkippedByGate : cw.evals[k].win = 1 /\ ~cw.evals[k].pass
\* a chain of a later window was passed over, having passed the window before
ChainSkippedAfterPassing ==
  \E k \in SkippedByGate : cw.evals[k].win > 1 /\ InPrecedingWindow(k)

(***************************************************************************)
(* The merge with cutoffs up to and above the length of the post buffer.   *)
(* FREQ is accepted when it is at most the cutoff of the two indices       *)
(* (3748-3757), which is read from the index files (1546, 1593); the       *)
(* k-mers of the second table have three or six positions each.            *)
(***************************************************************************)
MkTableHigh(s, odd) ==
  [i \in 1..Len(s) |-> [MkTable(s, odd)[i] EXCEPT !.cnt = 3 * @]]

MergeInitHigh ==
  /\ \E s1 \in SortedSeqs(MaxT1), s2 \in SortedSeqs(MaxT2) :
        /\ Len(s1) >= 1
        /\ T1 = MkTable(s1, 1)
        /\ T2 = MkTableHigh(s2, 0)
  /\ FREQ \in (MaxFreq + 1)..(POST_BUF_LEN + MaxFreq)
  /\ mw = [t \in Workers |-> MergeStart(t)]
  /\ units = [t \in Workers |-> [f \in Families |-> [j \in 0..(NPARTS - 1) |-> <<>>]]]
  /\ buck = [t \in Workers |-> [f \in Families |-> [c \in 0..(NCONTS - 1) |-> 0]]]
  /\ mlast = [t \in Workers |-> NoIteration]
  /\ seen = [i \in 0..(Len(T1) - 1) |-> 0]

InitMergeHigh == MergeInitHigh /\ SortIdle /\ ChainIdle /\ FilterIdle /\ ShardIdle /\ MainIdle /\ SplitIdle /\ ReadIdle /\ DictIdle
SpecMergeHigh == InitMergeHigh /\ [][MergeNext]_vars

\* the positions of the cache entries [from, to) of worker t
RangeCount(t, from, to) ==
  SumTo([l \in 0..mw[t].ctop |-> CCnt(mw[t], l)], from, to - 1)
\* the index in P2 of the first position of cache entry l of worker t
RangeBase(t, l) == PostBase(T2, mw[t].cbase + l)
\* worker t has just emitted the records of a T1 entry
Emitted(t) == mlast[t].kind = "emit"
\* the slice post[b .. b+freq) read for the records of worker t holds the
\* positions of the range [vlcp[plen], l), in order
SliceIsRange(t) ==
  /\ RangeCount(t, mw[t].vlcp[mlast[t].plen], mlast[t].top) = mlast[t].freq
  /\ \A k \in 0..(mlast[t].freq - 1) :
       /\ mlast[t].b + k < POST_BUF_LEN + FREQ
       /\ mw[t].post[mlast[t].b + k] = RangeBase(t, mw[t].vlcp[mlast[t].plen]) + k
\* P2 stands at the first position that was not loaded: every position of
\* the panel below vhgh was loaded once, none twice
LoadedOnce(t) == mw[t].p2 = RangeBase(t, mw[t].vhgh)

\* C33 as stated: whenever seed records are emitted for a T1 entry whose
\* T2 range [vlcp[plen], l) has total count freq, the freq entries read
\* from post[b] on are exactly the P2 positions of that range, in order,
\* none overwritten, every index read below POST_BUF_LEN + FREQ, and each
\* P2 entry of the panel loaded at most once - for every FREQ accepted.
PostSliceIsRangeForEveryFreq ==
  \A t \in Workers : Emitted(t) => SliceIsRange(t) /\ LoadedOnce(t)

\* the part of C33 that holds: ranges of at most POST_BUF_LEN positions
PostSliceIsRangeUpToBufferLen ==
  \A t \in Workers :
    (Emitted(t) /\ FREQ <= POST_BUF_LEN + 1) => SliceIsRange(t) /\ LoadedOnce(t)

\* a range of more positions than the buffer holds was emitted
EmittedRangeAboveBuffer ==
  \E t \in Workers : Emitted(t) /\ mlast[t].freq > POST_BUF_LEN
\* a slice that wraps around the end of the buffer was emitted whole
EmittedWrappedSlice ==
  \E t \in Workers :
    /\ Emitted(t) /\ SliceIsRange(t) /\ FREQ <= POST_BUF_LEN
    /\ mlast[t].b + mlast[t].freq > POST_BUF_LEN

\* C34: at the start of every iteration of the merge loop P1 is synchronised
\* with T1: the index of P1 is the sum of the counts of the T1 entries
\* before the current one, whichever way the iterations before went (seeds
\* emitted, frequency too high, no T2 entry of the panel).
P1SynchronisedWithT1 ==
  \A t \in Workers : mw[t].p1 = PostBase(T1, mw[t].t1)

\* one worker has just skipped the T1 entries of a panel that T2 lacks, the
\* other has emitted the seeds of an entry and then found one above the cutoff
P1AfterSkipEmitAndEmpty ==
  \E t, u \in Workers :
    /\ mlast[t].kind = "skip" /\ mlast[t].to > mlast[t].from
    /\ mlast[u].kind = "empty" /\ mlast[u].from > 0
    /\ \E f \in Families : \E j \in 0..(NPARTS - 1) : units[u][f][j] # <<>>
    /\ mw[u].p1 = PostBase(T1, mw[u].t1) /\ mw[u].p1 > 0

\* worker t has started the merge of a panel (1918-1926)
MergeBegun(t) == mw[t].plen # 0
\* cache <= vlcp[plen] <= rend <= ctop, vhgh <= ctop, 12 <= plen <= KMER
PointersInPanel(t) ==
  /\ 0 <= mw[t].vlcp[mw[t].plen] /\ mw[t].vlcp[mw[t].plen] <= mw[t].rend
  /\ mw[t].rend <= mw[t].ctop /\ mw[t].vhgh <= mw[t].ctop
  /\ mw[t].plen \in 12..KMER
\* no ADVANCE of the entry at ctop and no base read there
SentinelRespected(t) == ~mw[t].bad

\* C35 as stated: the cache pointers stay inside the loaded panel,
\* cache <= vlcp[plen] <= rend <= ctop and vhgh <= ctop at every step, the
\* sentinel stops every scan, ADVANCE is never applied to the entry at
\* ctop, and plen stays within 12..KMER.
CachePointersInsideLoadedPanel ==
  \A t \in Workers : MergeBegun(t) => PointersInPanel(t) /\ SentinelRespected(t)

\* C35 as amended: the same while the cache holds the entries of a panel;
\* after a load that found no T2 entry of the panel ctop = cache, and rend,
\* vlcp[plen] and vhgh keep their values of the panel before, unused
CachePointersInsideNonEmptyPanel ==
  \A t \in Workers :
    /\ SentinelRespected(t)
    /\ MergeBegun(t) => mw[t].plen \in 12..KMER
    /\ (MergeBegun(t) /\ mw[t].ctop > 0) => PointersInPanel(t)
    /\ (MergeBegun(t) /\ mw[t].ctop = 0) => mlast[t].kind \in {"skip", "none"}

\* a scan ran to the end of the cache and stopped at ctop, with all
\* positions of the panel loaded
ScanStoppedAtSentinel ==
  \E t \in Workers :
    /\ mlast[t].kind \in {"emit", "empty"}
    /\ mw[t].ctop > 1 /\ mw[t].rend = mw[t].ctop /\ mw[t].vhgh = mw[t].ctop
    /\ mw[t].vlcp[mw[t].plen] > 0
\* the cache was emptied by a load while rend and vhgh point into the
\* panel before
PointersLeftBehindEmptyCache ==
  \E t \in Workers :
    /\ mlast[t].kind = "skip" /\ mw[t].ctop = 0
    /\ mw[t].rend > 0 /\ mw[t].vhgh > 0

(***************************************************************************)
(* The b-position print_seeds recomputes from a sort record (2423-2433).   *)
(***************************************************************************)
\* jpost as print_seeds computes it from the stored fields
RecomputedBPost(r) ==
  IF scomp = 1
  THEN (r.pdiag * (2 ^ BUCK_SHIFT) + r.drem) - r.ipost
  ELSE r.ipost - ((r.pdiag * (2 ^ BUCK_SHIFT) + r.drem) - BLens[r.jcont + 1])
\* the a-post of the record was shifted by KMER - lcp (2358-2359)
Shifted(r) == scomp = 0 /\ r.of.flip = 1

\* C36: for every sort record the b-position recomputed from its diagonal
\* and its stored a-post (opposite strand: diag - a-post; same strand:
\* a-post - (diag - b-contig length)) lies in [0, b-contig length]; it is
\* the b-post of the seed, moved by KMER - lcp along with the a-post for a
\* record whose a-post was shifted because the flip bit of the b side is set.
RecomputedBPostInContig ==
  \A x \in DOMAIN sarr :
    sarr[x] # NoRec =>
      /\ 0 <= RecomputedBPost(sarr[x])
      /\ RecomputedBPost(sarr[x]) <= BLens[sarr[x].jcont + 1]
      /\ RecomputedBPost(sarr[x]) =
           sarr[x].of.jpost + (IF Shifted(sarr[x]) THEN KMER - sarr[x].lcp ELSE 0)

\* a sorted round on the same strand holds a shifted record of the last
\* k-mer of its b-contig: its recomputed b-position is KMER - lcp further
SortedShiftedRecordAtContigEnd ==
  /\ sphase = "sorted" /\ scomp = 0
  /\ \E x \in DOMAIN sarr :
        /\ sarr[x] # NoRec /\ Shifted(sarr[x]) /\ sarr[x].lcp < KMER
        /\ sarr[x].of.jpost = BLens[sarr[x].jcont + 1] - KMER
        /\ sarr[x].ipost = sarr[x].of.ipost + (KMER - sarr[x].lcp)
        /\ RecomputedBPost(sarr[x]) = sarr[x].of.jpost + (KMER - sarr[x].lcp)

\* the split of dlens has been computed
SplitDone == dpart # <<>>
\* IDBsplit rises strictly from IDBsplit[0] = 0 to IDBsplit[NPARTS] = NCONTS
SplitIncreasing ==
  /\ Len(dpart.split) = dpart.nparts + 1
  /\ dpart.split[1] = 0 /\ dpart.split[dpart.nparts + 1] = Len(dlens)
  /\ \A p \in 1..dpart.nparts : dpart.split[p] < dpart.split[p + 1]
\* Select[x] = p exactly when IDBsplit[p] <= x < IDBsplit[p+1]
SelectIsPartOfSplit ==
  /\ Len(dpart.sel) = Len(dlens)
  /\ \A x \in 0..(Len(dlens) - 1) : \A p \in 0..(dpart.nparts - 1) :
       dpart.sel[x + 1] = p <=>
         (dpart.split[p + 1] <= x /\ x < dpart.split[p + 2])
\* 1 <= NPARTS <= NTHREADS, IDBsplit within its NTHREADS+1 entries
PartsWithinThreads ==
  /\ 1 <= dpart.nparts /\ dpart.nparts <= NTHREADS
  /\ Len(dpart.split) <= NTHREADS + 1

\* C37 as stated: for every vector of contig lengths, zero lengths
\* included, 1 <= NPARTS <= NTHREADS, IDBsplit is strictly increasing from
\* IDBsplit[0] = 0 to IDBsplit[NPARTS] = NCONTS within its NTHREADS+1
\* entries, and Select[x] = p exactly when IDBsplit[p] <= x < IDBsplit[p+1].
SplitIsPartitionIntoAtMostNthreads ==
  SplitDone => PartsWithinThreads /\ SplitIncreasing /\ SelectIsPartOfSplit

\* the part of C37 that holds: contigs that all have a positive length,
\* and without the bound on NPARTS every vector of lengths
SplitIsPartitionForPositiveLengths ==
  SplitDone =>
    /\ SplitIncreasing /\ SelectIsPartOfSplit
    /\ (\A x \in 1..Len(dlens) : dlens[x] > 0) => PartsWithinThreads

\* the split of a database whose last contig is empty has more parts than
\* there are threads
MorePartsThanThreads ==
  /\ SplitDone /\ dpart.nparts = NTHREADS + 1
  /\ dlens[Len(dlens)] = 0 /\ dlens[1] > 0
\* a database of contigs of positive length was split into NTHREADS parts
SplitIntoNthreadsParts ==
  /\ SplitDone /\ dpart.nparts = NTHREADS
  /\ \A x \in 1..Len(dlens) : dlens[x] > 0

\* read_1aln has collected the blocks
Collected == rpc = "done"
\* the alignments of the file that pass the filters, in file order
RECURSIVE KeptFrom(_)
KeptFrom(i) ==
  IF i >= Len(ovls) THEN <<>>
  ELSE IF PassesFilters(ovls[i + 1]) THEN <<i>> \o KeptFrom(i + 1) ELSE KeptFrom(i + 1)
\* the segment in entry k of the array
SegmentAt(k) == [i \in 0..(SegBytes - 1) |-> segments[k * SegBytes + i]]
SegmentOf(a) == [i \in 0..(SegBytes - 1) |-> <<a, i>>]
\* segments[0 .. nSegment) are the kept alignments, each once, in file order
SegmentsAreKept ==
  /\ nSegment = Len(KeptFrom(0))
  /\ \A k \in 0..(nSegment - 1) : SegmentAt(k) = SegmentOf(KeptFrom(0)[k + 1])
\* no block before the last one with a segment has dropped an alignment
NoGapBeforeLaterBlock ==
  \A p, q \in DOMAIN parm :
    (p < q /\ parm[q].nseg > 0) => parm[p].nseg = parm[p].end - parm[p].beg

\* C38 as stated: with any NTHREADS >= 1, after the blocks are collected
\* segments[0 .. nSegment) holds exactly the segments that passed the
\* filters in all blocks, each once and in file order, and nSegment is
\* their number: the result does not depend on NTHREADS.
CollectedSegmentsAreKeptInOrder ==
  Collected => SegmentsAreKept

\* the part of C38 that holds: the count for every run, the array for one
\* thread and for runs in which no block leaves a gap before a later segment
CollectedSegmentsWithoutGap ==
  Collected =>
    /\ nSegment = Len(KeptFrom(0))
    /\ (rthreads = 1 \/ NoGapBeforeLaterBlock) => SegmentsAreKept

\* two threads, the first dropped an alignment and the second kept one:
\* the first entry of the array is not a segment that was kept
CollectedLeftGap ==
  /\ Collected /\ rthreads = 2 /\ nSegment > 0
  /\ parm[0].nseg < parm[0].end - parm[0].beg /\ parm[1].nseg > 0
  /\ ~SegmentsAreKept
\* two threads have each kept all of their block, with one dropped at the end
CollectedTwoFullBlocks ==
  /\ Collected /\ rthreads = 2 /\ Len(ovls) = MaxOvl
  /\ parm[0].nseg > 0 /\ parm[1].nseg > 0 /\ nSegment < Len(ovls)
  /\ SegmentsAreKept

\* the index of name s: the number of distinct names added before it
RECURSIVE IndexOf(_, _)
IndexOf(s, k) == IF added[k] = s THEN k - 1 ELSE IndexOf(s, k + 1)
\* what the last call has returned is what the names added say
CallAnswered ==
  /\ ~dcall.hung
  /\ dcall.op = "add" =>
       /\ dcall.fresh => dcall.ret = 1 /\ dcall.index = Len(added) - 1
                         /\ added[Len(added)] = dcall.s
       /\ ~dcall.fresh => dcall.ret = 0 /\ dcall.index = IndexOf(dcall.s, 1)
  /\ dcall.op = "find" =>
       /\ dcall.fresh => dcall.ret = 0
       /\ ~dcall.fresh => dcall.ret = 1 /\ dcall.index = IndexOf(dcall.s, 1)
\* what dictFind and dictName give for every string from here on
FindAnswers ==
  \A s \in NamePool :
    \E f \in {dictFind(dict, s)} :
      /\ ~f.hung
      /\ IsAdded(s) => f.ret = 1 /\ f.index = IndexOf(s, 1) /\ dictName(dict, f.index) = s
      /\ ~IsAdded(s) => f.ret = 0
\* the first slot of s holds another name
Collides(s) ==
  \E i \in {dict.table[hashString(s, dict.dim, FALSE)]} : i # 0 /\ dict.names[i] # s

\* C39: for any sequence of dictAdd calls, doublings included, dictAdd of
\* a new name returns 1 with the index equal to the number of distinct
\* names added before, dictAdd of a name present returns 0 with its index,
\* and dictFind ends for every string, with 1 and the index for every
\* added name and 0 for any other, dictName(index) giving back the name.
DictAddFindAgree ==
  /\ CallAnswered
  /\ FindAnswers
  /\ dict.max = Len(added) /\ dict.size = 2 ^ dict.dim
  /\ dict.max < dict.size \div 2

\* the table has doubled twice and the last dictAdd was of a name present,
\* found behind another name
AddOfPresentNameAfterDoubling ==
  /\ dict.dim = InitDim + 2
  /\ dcall.op = "add" /\ ~dcall.fresh /\ dcall.ret = 0 /\ Collides(dcall.s)

====
